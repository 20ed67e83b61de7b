---------------------------- MODULE AgentProofs -----------------------------
(***************************************************************************)
(* Proofs about the components that keep an agent answering well:          *)
(* LLMRouter and PromptVersions. They share no variable; each has its own  *)
(* inductive invariant and theorems.                                       *)
(***************************************************************************)
EXTENDS LLMRouter, PromptVersions, FiniteSetTheorems, SequenceTheorems, TLAPS

(***************************************************************************)
(* LLMRouter: type correctness, no counter of failures is left without an  *)
(* expiry, and a breaker opens on failures alone.                          *)
(***************************************************************************)
(* A request that calls a provider, or clears its keys, has one to name.   *)
OneToName == \A c \in LLMRequests : llm[c].pc \in {"call", "clear"} => llm[c].rest # <<>>

LLMInv == LLMTypeOK /\ OneToName /\ EveryCountExpires

----------------------------------------------------------------------------
(* The provider a request is trying is one of the providers. *)
LEMMA TryingIsAProvider ==
    ASSUME LLMTypeOK, NEW c \in LLMRequests, llm[c].rest # <<>>
    PROVE  Trying(c) \in Providers /\ Tail(llm[c].rest) \in Seq(Providers)
<1>1. llm[c].rest \in Seq(Providers)
  BY DEF LLMTypeOK
<1>2. QED
  BY <1>1 DEF Trying

(* The initial states satisfy the invariant. *)
LEMMA LLMInitInv == LLMInit => LLMInv
<1> SUFFICES ASSUME LLMInit PROVE LLMInv
  OBVIOUS
<1>1. 0 \in 0..FAIL_THRESHOLD /\ 0 \in 0..FAIL_WINDOW /\ 0 \in 0..OPEN_DURATION
  BY BreakerAssumption
<1>2. <<>> \in Seq(Providers) /\ {} \in SUBSET Keys
  OBVIOUS
<1>3. NoRequest \in [pc : {"idle", "check", "call", "clear"}, rest : Seq(Providers), keys : SUBSET Keys]
  BY <1>2 DEF NoRequest
<1>4. LLMTypeOK
  BY <1>1, <1>3 DEF LLMInit, LLMTypeOK
<1>5. OneToName /\ EveryCountExpires
  BY DEF LLMInit, OneToName, EveryCountExpires, NoRequest
<1>6. QED
  BY <1>4, <1>5 DEF LLMInv

(* The steps of complete touch neither counters nor, but for the failure   *)
(* they start to record, recordings.                                       *)
LEMMA CompleteKeeps ==
    ASSUME LLMInv, NEW c \in LLMRequests,
           \/ Completes(c) \/ breakerIsOpen(c) \/ CheckFails(c) \/ Exhausted(c)
           \/ ProviderAnswers(c) \/ ProviderFails(c) \/ ProviderRefuses(c)
    PROVE  LLMInv'
<1> USE DEF LLMInv
<1> DEFINE Places == [pc : {"idle", "check", "call", "clear"}, rest : Seq(Providers), keys : SUBSET Keys]
<1>0. NoRequest \in Places /\ Keys \in SUBSET Keys /\ llm \in [LLMRequests -> Places]
  BY DEF NoRequest, LLMTypeOK
<1>1. llm' \in [LLMRequests -> Places] /\ OneToName'
  <2>1. CASE Completes(c)
    <3>1. PICK chain \in Chains : llm' = [llm EXCEPT ![c] = [NoRequest EXCEPT !.pc = "check", !.rest = chain]]
      BY <2>1 DEF Completes
    <3>2. [NoRequest EXCEPT !.pc = "check", !.rest = chain] \in Places
      BY <1>0, ChainsAssumption DEF NoRequest
    <3>3. QED
      BY <1>0, <3>1, <3>2 DEF OneToName, NoRequest
  <2>2. CASE breakerIsOpen(c) \/ CheckFails(c) \/ ProviderFails(c)
    <3>1. llm[c].rest # <<>> /\ llm[c] \in Places
      BY <1>0, <2>2 DEF breakerIsOpen, CheckFails, ProviderFails, OneToName
    <3>2. Tail(llm[c].rest) \in Seq(Providers)
      BY <3>1, TryingIsAProvider
    <3>3. \/ llm' = [llm EXCEPT ![c] = [llm[c] EXCEPT !.rest = Tail(llm[c].rest)]] /\ llm[c].pc = "check"
          \/ llm' = [llm EXCEPT ![c] = [llm[c] EXCEPT !.pc = "call"]]
          \/ llm' = [llm EXCEPT ![c] = [llm[c] EXCEPT !.pc = "check", !.rest = Tail(llm[c].rest)]]
      <4>1. CASE breakerIsOpen(c)
        <5> DEFINE next == IF openTtl[Trying(c)] > 0 THEN [llm[c] EXCEPT !.rest = Tail(llm[c].rest)]
                                                    ELSE [llm[c] EXCEPT !.pc = "call"]
        <5>1. llm' = [llm EXCEPT ![c] = next] /\ llm[c].pc = "check"
          BY <4>1 DEF breakerIsOpen
        <5>2. QED
          BY <5>1
      <4>2. CASE CheckFails(c)
        BY <4>2, <1>0 DEF CheckFails
      <4>3. CASE ProviderFails(c)
        BY <4>3, <1>0 DEF ProviderFails
      <4>4. QED
        BY <2>2, <4>1, <4>2, <4>3
    <3>4. CASE llm' = [llm EXCEPT ![c] = [llm[c] EXCEPT !.rest = Tail(llm[c].rest)]] /\ llm[c].pc = "check"
      BY <1>0, <3>1, <3>2, <3>4 DEF OneToName
    <3>5. CASE llm' = [llm EXCEPT ![c] = [llm[c] EXCEPT !.pc = "call"]]
      BY <1>0, <3>1, <3>5 DEF OneToName
    <3>6. CASE llm' = [llm EXCEPT ![c] = [llm[c] EXCEPT !.pc = "check", !.rest = Tail(llm[c].rest)]]
      BY <1>0, <3>1, <3>2, <3>6 DEF OneToName
    <3>7. QED
      BY <3>3, <3>4, <3>5, <3>6
  <2>3. CASE Exhausted(c) \/ ProviderRefuses(c)
    BY <1>0, <2>3 DEF Exhausted, ProviderRefuses, OneToName, NoRequest
  <2>4. CASE ProviderAnswers(c)
    BY <1>0, <2>4 DEF ProviderAnswers, OneToName
  <2>5. QED
    BY <2>1, <2>2, <2>3, <2>4
<1>2. UNCHANGED <<breakerVars, unexpiring>> /\ cacheFaults' \in Nat
  <2>1. CASE CheckFails(c)
    BY <2>1 DEF LLMTypeOK, CheckFails, CacheFault
  <2>2. CASE UNCHANGED <<breakerVars, cacheFaults, unexpiring>>
    BY <2>2 DEF LLMTypeOK
  <2>3. QED
    BY <2>1, <2>2 DEF Completes, breakerIsOpen, Exhausted, ProviderAnswers, ProviderFails, ProviderRefuses
<1>3. /\ recorder' \in [LLMRequests -> [Providers -> {"none", "incr", "expire", "open"}]]
      /\ \A d \in LLMRequests, p \in Providers : recorder[d][p] = "expire" => recorder'[d][p] = "expire"
  <2>1. CASE ProviderFails(c)
    BY <2>1 DEF ProviderFails, LLMTypeOK
  <2>2. CASE UNCHANGED recorder
    BY <2>2 DEF LLMTypeOK
  <2>3. QED
    BY <2>1, <2>2 DEF Completes, breakerIsOpen, CheckFails, Exhausted, ProviderAnswers, ProviderRefuses
<1>4. strikes' \in [Providers -> 0..FAIL_THRESHOLD] /\ crossed' \subseteq Providers
  <2>1. CASE ProviderAnswers(c) \/ ProviderFails(c)
    <3>1. Trying(c) \in Providers
      BY <2>1, TryingIsAProvider DEF ProviderAnswers, ProviderFails, OneToName
    <3>2. 0 \in 0..FAIL_THRESHOLD /\ \A n \in 0..FAIL_THRESHOLD : Least(n + 1, FAIL_THRESHOLD) \in 0..FAIL_THRESHOLD
      BY BreakerAssumption DEF Least
    <3>3. QED
      BY <2>1, <3>1, <3>2 DEF ProviderAnswers, ProviderFails, LLMTypeOK
  <2>2. CASE UNCHANGED <<strikes, crossed>>
    BY <2>2 DEF LLMTypeOK
  <2>3. QED
    BY <2>1, <2>2 DEF Completes, breakerIsOpen, CheckFails, Exhausted, ProviderRefuses
<1>5. LLMTypeOK'
  BY <1>1, <1>2, <1>3, <1>4 DEF LLMTypeOK, breakerVars
<1>6. EveryCountExpires'
  BY <1>2, <1>3 DEF EveryCountExpires, breakerVars
<1>7. QED
  BY <1>1, <1>5, <1>6

(* A success deletes the keys: a counter that is gone needs no expiry. *)
LEMMA ClearingKeeps ==
    ASSUME LLMInv, NEW c \in LLMRequests, NEW k \in Keys, recordSuccess(c, k) \/ DelFails(c, k)
    PROVE  LLMInv'
<1> USE DEF LLMInv
<1> DEFINE Places == [pc : {"idle", "check", "call", "clear"}, rest : Seq(Providers), keys : SUBSET Keys]
<1>0. NoRequest \in Places /\ llm \in [LLMRequests -> Places]
  BY DEF NoRequest, LLMTypeOK
<1>1. Trying(c) \in Providers
  BY TryingIsAProvider DEF recordSuccess, DelFails, OneToName
<1>2. llm' \in [LLMRequests -> Places] /\ OneToName'
  <2>1. Cleared(c, k)
    BY DEF recordSuccess, DelFails
  <2>2. llm' = [llm EXCEPT ![c] = NoRequest] \/ llm' = [llm EXCEPT ![c] = [llm[c] EXCEPT !.keys = llm[c].keys \ {k}]]
    <3>1. CASE llm[c].keys = {k}
      BY <2>1, <3>1 DEF Cleared
    <3>2. CASE llm[c].keys # {k}
      <4> DEFINE next == IF llm[c].keys = {k} THEN NoRequest ELSE [llm[c] EXCEPT !.keys = llm[c].keys \ {k}]
      <4>1. llm' = [llm EXCEPT ![c] = next]
        BY <2>1 DEF Cleared
      <4>2. QED
        BY <3>2, <4>1
    <3>3. QED
      BY <3>1, <3>2
  <2>3. CASE llm' = [llm EXCEPT ![c] = NoRequest]
    BY <1>0, <2>3 DEF OneToName, NoRequest
  <2>4. CASE llm' = [llm EXCEPT ![c] = [llm[c] EXCEPT !.keys = llm[c].keys \ {k}]]
    BY <1>0, <2>4 DEF OneToName
  <2>5. QED
    BY <2>2, <2>3, <2>4
<1>3. CASE recordSuccess(c, k)
  <2>1. 0 \in 0..FAIL_THRESHOLD /\ 0 \in 0..FAIL_WINDOW /\ 0 \in 0..OPEN_DURATION
    BY BreakerAssumption
  <2>2. LLMTypeOK'
    BY <1>1, <1>2, <1>3, <2>1 DEF LLMTypeOK, recordSuccess
  <2>3. EveryCountExpires'
    <3>1. CASE k = "failures"
      <4>1. /\ failures'[Trying(c)] = 0
            /\ \A p \in Providers : p # Trying(c) => failures'[p] = failures[p] /\ failTtl'[p] = failTtl[p]
            /\ UNCHANGED recorder /\ unexpiring' = unexpiring \ {Trying(c)}
        BY <1>1, <1>3, <3>1 DEF recordSuccess, LLMTypeOK
      <4>2. QED
        BY <4>1 DEF EveryCountExpires
    <3>2. CASE k # "failures"
      BY <1>3, <3>2 DEF EveryCountExpires, recordSuccess
    <3>3. QED
      BY <3>1, <3>2
  <2>4. QED
    BY <1>2, <2>2, <2>3
<1>4. CASE DelFails(c, k)
  <2>1. LLMTypeOK'
    BY <1>1, <1>2, <1>4 DEF LLMTypeOK, DelFails, breakerVars, CacheFault
  <2>2. EveryCountExpires'
    BY <1>4 DEF EveryCountExpires, DelFails, breakerVars
  <2>3. QED
    BY <1>2, <2>1, <2>2
<1>5. QED
  BY <1>3, <1>4

(* The recording: the first failure is always followed by its expiry. *)
LEMMA RecordingKeeps ==
    ASSUME LLMInv, NEW c \in LLMRequests, NEW p \in Providers,
           Incr(c, p) \/ Expire(c, p) \/ OpenBreaker(c, p) \/ RecordingLost(c, p)
    PROVE  LLMInv'
<1> USE DEF LLMInv
<1> DEFINE Steps == {"none", "incr", "expire", "open"}
<1>1. OneToName'
  BY DEF OneToName, Incr, Expire, OpenBreaker, RecordingLost
<1>2. \A there \in Steps : Recorded(c, p, there) =>
         /\ recorder' \in [LLMRequests -> [Providers -> Steps]]
         /\ recorder'[c][p] = there
         /\ \A d \in LLMRequests, q \in Providers : d # c \/ q # p => recorder'[d][q] = recorder[d][q]
  BY DEF Recorded, LLMTypeOK
<1>3. CASE Incr(c, p)
  <2> DEFINE n == Least(failures[p] + 1, FAIL_THRESHOLD)
  <2> DEFINE there == IF n = 1 THEN "expire" ELSE IF n = FAIL_THRESHOLD THEN "open" ELSE "none"
  <2>1. failures[p] \in 0..FAIL_THRESHOLD /\ n \in 0..FAIL_THRESHOLD /\ (n = 1 => failures[p] = 0) /\ (failures[p] = 0 => n = 1)
    BY BreakerAssumption DEF Least, LLMTypeOK
  <2>2. Recorded(c, p, there) /\ there \in Steps /\ recorder[c][p] = "incr"
    BY <1>3 DEF Incr
  <2>3. failures' = [failures EXCEPT ![p] = n] /\ UNCHANGED <<failTtl, openTtl, llm, cacheFaults, strikes, crossed, unexpiring>>
    BY <1>3 DEF Incr
  <2> HIDE DEF n, there
  <2>4. LLMTypeOK'
    BY <1>2, <2>1, <2>2, <2>3 DEF LLMTypeOK
  <2>5. EveryCountExpires'
    <3> SUFFICES ASSUME NEW q \in Providers \ unexpiring, failures'[q] > 0, failTtl'[q] = 0
                 PROVE  \E d \in LLMRequests : recorder'[d][q] = "expire"
      BY <2>3 DEF EveryCountExpires
    <3>1. CASE q = p /\ n = 1
      BY <1>2, <2>2, <3>1 DEF there
    <3>2. CASE q # p \/ n # 1
      <4>1. failures[q] > 0 /\ failTtl[q] = 0
        BY <2>1, <2>3, <3>2 DEF LLMTypeOK
      <4>2. PICK d \in LLMRequests : recorder[d][q] = "expire"
        BY <4>1 DEF EveryCountExpires
      <4>3. recorder'[d][q] = "expire"
        BY <1>2, <2>2, <4>2
      <4>4. QED
        BY <4>3
    <3>3. QED
      BY <3>1, <3>2
  <2>6. QED
    BY <1>1, <2>4, <2>5
<1>4. CASE Expire(c, p)
  <2>1. /\ Recorded(c, p, "none") /\ UNCHANGED <<failures, openTtl, llm, cacheFaults, strikes, crossed>>
        /\ unexpiring' = IF failures[p] > 0 THEN unexpiring \ {p} ELSE unexpiring
    BY <1>4 DEF Expire
  <2>2. /\ failTtl' \in [Providers -> 0..FAIL_WINDOW]
        /\ failures[p] > 0 => failTtl'[p] # 0
        /\ \A q \in Providers : q # p => failTtl'[q] = failTtl[q]
    BY <1>4, BreakerAssumption DEF Expire, LLMTypeOK
  <2>3. LLMTypeOK'
    BY <1>2, <2>1, <2>2 DEF LLMTypeOK
  <2>4. EveryCountExpires'
    BY <1>2, <2>1, <2>2 DEF EveryCountExpires
  <2>5. QED
    BY <1>1, <2>3, <2>4
<1>5. CASE OpenBreaker(c, p)
  <2>1. /\ Recorded(c, p, "none") /\ recorder[c][p] = "open"
        /\ UNCHANGED <<failures, failTtl, llm, cacheFaults, strikes, crossed, unexpiring>>
    BY <1>5 DEF OpenBreaker
  <2>2. openTtl' \in [Providers -> 0..OPEN_DURATION]
    BY <1>5, BreakerAssumption DEF OpenBreaker, LLMTypeOK
  <2>3. LLMTypeOK'
    BY <1>2, <2>1, <2>2 DEF LLMTypeOK
  <2>4. EveryCountExpires'
    <3> SUFFICES ASSUME NEW q \in Providers \ unexpiring, failures[q] > 0, failTtl[q] = 0
                 PROVE  \E d \in LLMRequests : recorder'[d][q] = "expire"
      BY <2>1 DEF EveryCountExpires
    <3>1. PICK d \in LLMRequests : recorder[d][q] = "expire"
      BY DEF EveryCountExpires
    <3>2. QED
      BY <1>2, <2>1, <3>1
  <2>5. QED
    BY <1>1, <2>3, <2>4
<1>6. CASE RecordingLost(c, p)
  <2>1. /\ Recorded(c, p, "none") /\ UNCHANGED <<failures, failTtl, openTtl, llm, strikes, crossed>>
        /\ unexpiring' = IF recorder[c][p] = "expire" THEN unexpiring \cup {p} ELSE unexpiring
    BY <1>6 DEF RecordingLost, breakerVars
  <2>2. cacheFaults' \in Nat
    BY <1>6 DEF RecordingLost, CacheFault, LLMTypeOK
  <2>3. LLMTypeOK'
    BY <1>2, <2>1, <2>2 DEF LLMTypeOK
  <2>4. EveryCountExpires'
    BY <1>2, <2>1 DEF EveryCountExpires
  <2>5. QED
    BY <1>1, <2>3, <2>4
<1>7. QED
  BY <1>3, <1>4, <1>5, <1>6

(* Time: a counter that loses its last tick is gone. *)
LEMMA TickKeeps ==
    ASSUME LLMInv, Tick
    PROVE  LLMInv'
<1> USE DEF LLMInv
<1>1. OneToName'
  BY DEF OneToName, Tick
<1>2. /\ \A n \in 0..FAIL_WINDOW : Aged(n) \in 0..FAIL_WINDOW
      /\ \A n \in 0..OPEN_DURATION : Aged(n) \in 0..OPEN_DURATION
  BY BreakerAssumption DEF Aged
<1>3. 0 \in 0..FAIL_THRESHOLD
  BY BreakerAssumption
<1>4. LLMTypeOK'
  BY <1>2, <1>3 DEF LLMTypeOK, Tick
<1>5. EveryCountExpires'
  <2> SUFFICES ASSUME NEW p \in Providers \ unexpiring, failures'[p] > 0, failTtl'[p] = 0
               PROVE  \E c \in LLMRequests : recorder'[c][p] = "expire"
    BY DEF EveryCountExpires, Tick
  <2>1. failTtl[p] \in 0..FAIL_WINDOW /\ failTtl[p] # 1 /\ failures[p] > 0
    BY DEF LLMTypeOK, Tick
  <2>2. failTtl[p] = 0
    BY <2>1, BreakerAssumption DEF Tick, Aged
  <2>3. QED
    BY <2>1, <2>2 DEF Tick, EveryCountExpires
<1>6. QED
  BY <1>1, <1>4, <1>5

(* Every step preserves the invariant. *)
LEMMA LLMStepInv == LLMInv /\ [LLMNext]_llmVars => LLMInv'
<1> SUFFICES ASSUME LLMInv, [LLMNext]_llmVars PROVE LLMInv'
  OBVIOUS
<1>1. CASE UNCHANGED llmVars
  BY <1>1 DEF LLMInv, LLMTypeOK, OneToName, EveryCountExpires, llmVars, breakerVars
<1>2. CASE LLMNext
  BY <1>2, CompleteKeeps, ClearingKeeps, RecordingKeeps, TickKeeps DEF LLMNext
<1>3. QED
  BY <1>1, <1>2

(* The invariant holds in every behaviour of the specification. *)
THEOREM LLMInvariance == LLMSpec => []LLMInv
<1>1. QED
  BY LLMInitInv, LLMStepInv, PTL DEF LLMSpec

(***************************************************************************)
(* Whatever requests, deletions and time-outs interleave and whatever      *)
(* calls of the cache fail, a counter of failures that has no expiry has a *)
(* recording about to give it one, unless the EXPIRE that was to give it   *)
(* was lost and nothing deleted the counter since.                         *)
(***************************************************************************)
THEOREM CountsExpire == LLMSpec => []EveryCountExpires
<1>1. LLMInv => EveryCountExpires
  BY DEF LLMInv
<1>2. QED
  BY <1>1, LLMInvariance, PTL

(* A provider none of whose answers met the recording of a failure.  While *)
(* an answer deletes the keys nothing is recorded, so what is deleted      *)
(* stays so; otherwise the counter and the increments that are under way   *)
(* are no more than the failures since the last answer.                    *)
Incrs(p) == {c \in LLMRequests : recorder[c][p] = "incr"}
Clears(c, p) == llm[c].pc = "clear" /\ Trying(c) = p
KeysGone(p) ==
    Clearing(p) =>
        /\ ~Recording(p)
        /\ \A c \in LLMRequests : Clears(c, p) =>
              ("failures" \in llm[c].keys \/ failures[p] = 0) /\ ("open_until" \in llm[c].keys \/ openTtl[p] = 0)
Struck(p) ==
    ~Clearing(p) =>
        /\ strikes[p] = FAIL_THRESHOLD \/ failures[p] + Cardinality(Incrs(p)) <= strikes[p]
        /\ openTtl[p] > 0 \/ (\E c \in LLMRequests : recorder[c][p] = "open") => strikes[p] = FAIL_THRESHOLD
BreakerInv == \A p \in Providers \ crossed : KeysGone(p) /\ Struck(p)

LEMMA IncrsFinite ==
    ASSUME NEW S, S \subseteq LLMRequests
    PROVE  IsFiniteSet(S) /\ Cardinality(S) \in Nat
  BY RequestsAssumption, FS_Subset, FS_CardinalityType

(* A step that leaves requests clear of a provider, and records nothing    *)
(* new, keeps what is known of its breaker.                                *)
LEMMA BreakerCalm ==
    ASSUME LLMTypeOK, LLMTypeOK', NEW p \in Providers, KeysGone(p), Struck(p), strikes'[p] = strikes[p],
           failures'[p] <= failures[p], openTtl'[p] <= openTtl[p],
           \A c \in LLMRequests : Clears(c, p)' <=> Clears(c, p),
           \A c \in LLMRequests : Clears(c, p) => llm'[c].keys = llm[c].keys,
           \A c \in LLMRequests : recorder'[c][p] # recorder[c][p] => recorder'[c][p] = "none"
    PROVE  KeysGone(p)' /\ Struck(p)'
<1>1. (Clearing(p)' <=> Clearing(p)) /\ (Recording(p)' => Recording(p))
  BY DEF Clearing, Clears, Recording
<1>2. /\ failures[p] \in Nat /\ failures'[p] \in Nat /\ openTtl[p] \in Nat /\ openTtl'[p] \in Nat
      /\ strikes[p] \in Nat
  BY BreakerAssumption DEF LLMTypeOK
<1>3. KeysGone(p)'
  BY <1>1, <1>2 DEF KeysGone
<1>4. Cardinality(Incrs(p)') <= Cardinality(Incrs(p)) /\ Cardinality(Incrs(p)) \in Nat /\ Cardinality(Incrs(p)') \in Nat
  <2>1. Incrs(p)' \subseteq Incrs(p) /\ Incrs(p) \subseteq LLMRequests
    BY DEF Incrs
  <2>2. QED
    BY <2>1, IncrsFinite, FS_Subset
<1>5. Struck(p)'
  BY <1>1, <1>2, <1>4 DEF Struck
<1>6. QED
  BY <1>3, <1>5

LEMMA BreakerInit == LLMInit => BreakerInv
<1> SUFFICES ASSUME LLMInit, NEW p \in Providers PROVE KeysGone(p) /\ Struck(p)
  BY DEF BreakerInv
<1>1. ~Clearing(p) /\ \A c \in LLMRequests : recorder[c][p] = "none"
  BY DEF LLMInit, Clearing, NoRequest
<1>2. Incrs(p) = {}
  BY <1>1 DEF Incrs
<1>3. failures[p] = 0 /\ openTtl[p] = 0 /\ strikes[p] = 0 /\ Cardinality(Incrs(p)) = 0
  BY <1>2, FS_EmptySet DEF LLMInit
<1>4. QED
  BY <1>1, <1>3 DEF KeysGone, Struck

LEMMA BreakerStep == LLMInv /\ LLMInv' /\ BreakerInv /\ [LLMNext]_llmVars => BreakerInv'
<1> SUFFICES ASSUME LLMInv, LLMInv', BreakerInv, [LLMNext]_llmVars, NEW p \in Providers \ crossed'
             PROVE  KeysGone(p)' /\ Struck(p)'
  BY DEF BreakerInv
<1> DEFINE Places == [pc : {"idle", "check", "call", "clear"}, rest : Seq(Providers), keys : SUBSET Keys]
           Steps == {"none", "incr", "expire", "open"}
<1>0. /\ LLMTypeOK /\ LLMTypeOK' /\ OneToName /\ p \in Providers
      /\ llm \in [LLMRequests -> Places] /\ recorder \in [LLMRequests -> [Providers -> Steps]]
      /\ failures \in [Providers -> 0..FAIL_THRESHOLD] /\ strikes \in [Providers -> 0..FAIL_THRESHOLD]
      /\ openTtl \in [Providers -> 0..OPEN_DURATION] /\ failTtl \in [Providers -> 0..FAIL_WINDOW]
      /\ FAIL_THRESHOLD \in Nat \ {0, 1} /\ FAIL_WINDOW \in Nat \ {0} /\ OPEN_DURATION \in Nat \ {0}
      /\ NoRequest \in Places /\ NoRequest.pc = "idle"
  <2>1. NoRequest \in Places /\ NoRequest.pc = "idle"
    BY DEF NoRequest
  <2>2. QED
    BY <2>1, BreakerAssumption DEF LLMInv, LLMTypeOK
<1>1. p \notin crossed => KeysGone(p) /\ Struck(p)
  BY DEF BreakerInv
<1>2. ASSUME p \notin crossed, UNCHANGED <<breakerVars, strikes>>,
             \A c \in LLMRequests : Clears(c, p)' <=> Clears(c, p),
             \A c \in LLMRequests : Clears(c, p) => llm'[c].keys = llm[c].keys,
             \A c \in LLMRequests : recorder'[c][p] # recorder[c][p] => recorder'[c][p] = "none"
      PROVE  KeysGone(p)' /\ Struck(p)'
  <2>1. failures'[p] <= failures[p] /\ openTtl'[p] <= openTtl[p] /\ strikes'[p] = strikes[p]
    BY <1>0, <1>2 DEF breakerVars
  <2>2. QED
    BY <1>0, <1>1, <1>2, <2>1, BreakerCalm
<1>3. CASE UNCHANGED llmVars
  BY <1>2, <1>3 DEF llmVars, breakerVars, Clears, Trying
<1>4. ASSUME NEW c \in LLMRequests,
             Completes(c) \/ breakerIsOpen(c) \/ CheckFails(c) \/ Exhausted(c) \/ ProviderRefuses(c)
      PROVE  KeysGone(p)' /\ Struck(p)'
  <2>1. UNCHANGED <<breakerVars, recorder, strikes, crossed>> /\ llm[c].pc # "clear"
    BY <1>4 DEF Completes, breakerIsOpen, CheckFails, Exhausted, ProviderRefuses
  <2>2. \A d \in LLMRequests : d # c => llm'[d] = llm[d]
    BY <1>4, <1>0 DEF Completes, breakerIsOpen, CheckFails, Exhausted, ProviderRefuses
  <2>3. llm'[c].pc # "clear"
    <3>1. CASE Completes(c)
      <4>1. PICK chain \in Chains : llm' = [llm EXCEPT ![c] = [NoRequest EXCEPT !.pc = "check", !.rest = chain]]
        BY <3>1 DEF Completes
      <4>2. QED
        BY <4>1, <1>0 DEF NoRequest
    <3>2. CASE breakerIsOpen(c)
      <4>1. CASE openTtl[Trying(c)] > 0
        BY <1>0, <3>2, <4>1, <2>1 DEF breakerIsOpen
      <4>2. CASE ~(openTtl[Trying(c)] > 0)
        BY <1>0, <3>2, <4>2, <2>1 DEF breakerIsOpen
      <4>3. QED
        BY <4>1, <4>2
    <3>3. CASE CheckFails(c)
      BY <1>0, <3>3 DEF CheckFails
    <3>4. CASE Exhausted(c) \/ ProviderRefuses(c)
      BY <1>0, <3>4 DEF Exhausted, ProviderRefuses
    <3>5. QED
      BY <1>4, <3>1, <3>2, <3>3, <3>4
  <2>4. QED
    BY <1>2, <2>1, <2>2, <2>3 DEF Clears, Trying
<1>5. ASSUME NEW c \in LLMRequests, ProviderAnswers(c) PROVE KeysGone(p)' /\ Struck(p)'
  <2>1. /\ llm[c].pc = "call" /\ UNCHANGED <<breakerVars, recorder>> /\ strikes' = [strikes EXCEPT ![Trying(c)] = 0]
        /\ crossed' = IF Recording(Trying(c)) THEN crossed \cup {Trying(c)} ELSE crossed
        /\ llm' = [llm EXCEPT ![c].pc = "clear", ![c].keys = Keys]
    BY <1>5 DEF ProviderAnswers
  <2>2. /\ p \notin crossed /\ llm'[c].pc = "clear" /\ llm'[c].keys = Keys /\ llm'[c].rest = llm[c].rest
        /\ \A d \in LLMRequests : d # c => llm'[d] = llm[d]
    BY <1>0, <2>1
  <2>3. CASE Trying(c) = p
    <3>1. Clearing(p)' /\ ~Recording(p)'
      BY <2>1, <2>2, <2>3 DEF Clearing, Recording, Trying
    <3>2. \A d \in LLMRequests : Clears(d, p)' => (Clears(d, p) /\ llm'[d] = llm[d]) \/ llm'[d].keys = Keys
      BY <2>2 DEF Clears, Trying
    <3>3. \A d \in LLMRequests : Clears(d, p) => Clearing(p)
      BY DEF Clears, Clearing
    <3>4. KeysGone(p)'
      BY <1>1, <2>1, <2>2, <3>1, <3>2, <3>3 DEF KeysGone, Keys, breakerVars
    <3>5. QED
      BY <3>1, <3>4 DEF Struck
  <2>4. CASE Trying(c) # p
    <3>1. strikes'[p] = strikes[p] /\ \A d \in LLMRequests : Clears(d, p)' <=> Clears(d, p)
      BY <1>0, <2>1, <2>2, <2>4 DEF Clears, Trying
    <3>2. \A d \in LLMRequests : Clears(d, p) => llm'[d].keys = llm[d].keys
      BY <2>1, <2>2 DEF Clears
    <3>3. failures'[p] <= failures[p] /\ openTtl'[p] <= openTtl[p]
      BY <1>0, <2>1 DEF breakerVars
    <3>4. QED
      BY <1>0, <1>1, <2>1, <2>2, <3>1, <3>2, <3>3, BreakerCalm
  <2>5. QED
    BY <2>3, <2>4
<1>6. ASSUME NEW c \in LLMRequests, ProviderFails(c) PROVE KeysGone(p)' /\ Struck(p)'
  <2> DEFINE q == Trying(c)
  <2>1. /\ llm[c].pc = "call" /\ recorder[c][q] = "none" /\ UNCHANGED breakerVars
        /\ llm' = [llm EXCEPT ![c].pc = "check", ![c].rest = Tail(@)]
        /\ recorder' = [recorder EXCEPT ![c][q] = "incr"]
        /\ strikes' = [strikes EXCEPT ![q] = Least(@ + 1, FAIL_THRESHOLD)]
        /\ crossed' = IF Clearing(q) THEN crossed \cup {q} ELSE crossed
    BY <1>6 DEF ProviderFails
  <2>2. /\ p \notin crossed /\ q \in Providers /\ llm'[c].pc = "check"
        /\ \A d \in LLMRequests : d # c => llm'[d] = llm[d] /\ recorder'[d] = recorder[d]
        /\ recorder'[c] = [recorder[c] EXCEPT ![q] = "incr"]
    BY <1>0, <2>1, TryingIsAProvider DEF OneToName
  <2>3. \A d \in LLMRequests : (Clears(d, p)' <=> Clears(d, p)) /\ (Clears(d, p) => llm'[d].keys = llm[d].keys)
    BY <2>1, <2>2 DEF Clears, Trying
  <2>4. failures'[p] = failures[p] /\ openTtl'[p] = openTtl[p]
    BY <2>1 DEF breakerVars
  <2>5. CASE q # p
    <3>1. strikes'[p] = strikes[p] /\ \A d \in LLMRequests : recorder'[d][p] = recorder[d][p]
      BY <1>0, <2>1, <2>2, <2>5
    <3>2. failures'[p] <= failures[p] /\ openTtl'[p] <= openTtl[p]
      BY <1>0, <2>4
    <3>3. QED
      BY <1>0, <1>1, <2>2, <2>3, <3>1, <3>2, BreakerCalm
  <2>6. CASE q = p
    <3>1. ~Clearing(p) /\ ~Clearing(p)'
      BY <2>1, <2>3, <2>6 DEF Clearing, Clears
    <3>2. Incrs(p)' = Incrs(p) \cup {c} /\ c \notin Incrs(p)
      BY <1>0, <2>1, <2>2, <2>6 DEF Incrs
    <3>3. Cardinality(Incrs(p)') = Cardinality(Incrs(p)) + 1 /\ Cardinality(Incrs(p)) \in Nat
      <4>1. IsFiniteSet(Incrs(p)) /\ Cardinality(Incrs(p)) \in Nat
        BY IncrsFinite DEF Incrs
      <4>2. QED
        BY <3>2, <4>1, FS_AddElement
    <3>4. strikes'[p] = Least(strikes[p] + 1, FAIL_THRESHOLD)
      BY <1>0, <2>1, <2>6
    <3>5. \A d \in LLMRequests : recorder'[d][p] = "open" => recorder[d][p] = "open"
      BY <1>0, <2>2, <2>6
    <3>6. strikes[p] \in 0..FAIL_THRESHOLD /\ failures[p] \in Nat /\ FAIL_THRESHOLD \in Nat
      BY <1>0
    <3>7. Struck(p)'
      BY <1>1, <2>2, <2>4, <3>1, <3>3, <3>4, <3>5, <3>6 DEF Struck, Least
    <3>8. QED
      BY <3>1, <3>7 DEF KeysGone
  <2>7. QED
    BY <2>5, <2>6
<1>7. ASSUME NEW c \in LLMRequests, NEW k \in Keys, recordSuccess(c, k) PROVE KeysGone(p)' /\ Struck(p)'
  <2> DEFINE q == Trying(c)
  <2>1. /\ llm[c].pc = "clear" /\ k \in llm[c].keys /\ UNCHANGED <<recorder, strikes, crossed>> /\ Cleared(c, k)
        /\ q \in Providers
    BY <1>0, <1>7, TryingIsAProvider DEF recordSuccess, OneToName
  <2>2. /\ \A d \in LLMRequests : d # c => llm'[d] = llm[d]
        /\ \/ llm[c].keys = {k} /\ llm'[c].pc = "idle"
           \/ llm'[c].pc = "clear" /\ llm'[c].rest = llm[c].rest /\ llm'[c].keys = llm[c].keys \ {k}
    <3>1. CASE llm[c].keys = {k}
      BY <1>0, <2>1, <3>1 DEF Cleared
    <3>2. CASE llm[c].keys # {k}
      <4>1. llm' = [llm EXCEPT ![c] = [llm[c] EXCEPT !.keys = llm[c].keys \ {k}]]
        <5> DEFINE next == IF llm[c].keys = {k} THEN NoRequest ELSE [llm[c] EXCEPT !.keys = llm[c].keys \ {k}]
        <5>1. llm' = [llm EXCEPT ![c] = next]
          BY <2>1 DEF Cleared
        <5>2. QED
          BY <3>2, <5>1
      <4>2. QED
        BY <1>0, <2>1, <4>1
    <3>3. QED
      BY <3>1, <3>2
  <2>3. /\ k = "failures" => failures' = [failures EXCEPT ![q] = 0] /\ UNCHANGED openTtl
        /\ k = "open_until" => openTtl' = [openTtl EXCEPT ![q] = 0] /\ UNCHANGED failures
        /\ k \in {"failures", "open_until"}
    BY <1>7 DEF recordSuccess, Keys
  <2>4. CASE q # p
    <3>1. failures'[p] <= failures[p] /\ openTtl'[p] <= openTtl[p]
      BY <1>0, <2>3, <2>4
    <3>2. \A d \in LLMRequests : (Clears(d, p)' <=> Clears(d, p)) /\ (Clears(d, p) => llm'[d].keys = llm[d].keys)
      BY <2>1, <2>2, <2>4 DEF Clears, Trying
    <3>3. QED
      BY <1>0, <1>1, <2>1, <3>1, <3>2, BreakerCalm
  <2>5. CASE q = p
    <3>1. Clearing(p) /\ ~Recording(p) /\ Clears(c, p)
      BY <1>1, <2>1, <2>5 DEF Clearing, KeysGone, Clears
    <3>2. \A d \in LLMRequests : Clears(d, p) =>
             ("failures" \in llm[d].keys \/ failures[p] = 0) /\ ("open_until" \in llm[d].keys \/ openTtl[p] = 0)
      BY <1>1, <2>1, <3>1 DEF KeysGone
    <3>3. /\ k = "failures" => failures'[p] = 0 /\ openTtl'[p] = openTtl[p]
          /\ k = "open_until" => openTtl'[p] = 0 /\ failures'[p] = failures[p]
      BY <1>0, <2>3, <2>5
    <3>4. \A d \in LLMRequests : Clears(d, p)' => Clears(d, p) /\ llm[d].keys \subseteq llm'[d].keys \cup {k}
      BY <2>1, <2>2, <2>5 DEF Clears, Trying
    <3>5. ~Recording(p)'
      BY <2>1, <3>1 DEF Recording
    <3>6. KeysGone(p)'
      BY <2>3, <3>2, <3>3, <3>4, <3>5 DEF KeysGone
    <3>7. ASSUME ~Clearing(p)' PROVE Struck(p)'
      <4>1. llm[c].keys = {k}
        BY <2>2, <2>5, <3>7 DEF Clearing, Trying
      <4>2. failures'[p] = 0 /\ openTtl'[p] = 0
        BY <2>3, <3>1, <3>2, <3>3, <4>1
      <4>3. Incrs(p)' = {} /\ ~\E d \in LLMRequests : recorder'[d][p] = "open"
        BY <3>5 DEF Incrs, Recording
      <4>4. Cardinality(Incrs(p)') = 0
        BY <4>3, FS_EmptySet
      <4>5. strikes'[p] \in Nat
        BY <1>0, <2>1
      <4>6. QED
        BY <4>2, <4>3, <4>4, <4>5 DEF Struck
    <3>8. QED
      BY <3>6, <3>7 DEF Struck
  <2>6. QED
    BY <2>4, <2>5
<1>8. ASSUME NEW c \in LLMRequests, NEW k \in Keys, DelFails(c, k) PROVE KeysGone(p)' /\ Struck(p)'
  <2>1. /\ llm[c].pc = "clear" /\ UNCHANGED <<breakerVars, recorder, strikes>> /\ Cleared(c, k)
        /\ Trying(c) # p /\ p \notin crossed
    BY <1>8 DEF DelFails
  <2>2. \A d \in LLMRequests : d # c => llm'[d] = llm[d]
    BY <1>0, <2>1 DEF Cleared
  <2>3. llm'[c].pc = "idle" \/ llm'[c].rest = llm[c].rest
    <3>1. CASE llm[c].keys = {k}
      BY <1>0, <2>1, <3>1 DEF Cleared
    <3>2. CASE llm[c].keys # {k}
      <4> DEFINE next == IF llm[c].keys = {k} THEN NoRequest ELSE [llm[c] EXCEPT !.keys = llm[c].keys \ {k}]
      <4>1. llm' = [llm EXCEPT ![c] = next]
        BY <2>1 DEF Cleared
      <4>2. next = [llm[c] EXCEPT !.keys = llm[c].keys \ {k}]
        BY <3>2
      <4>3. QED
        BY <1>0, <4>1, <4>2
    <3>3. QED
      BY <3>1, <3>2
  <2>4. QED
    BY <1>2, <2>1, <2>2, <2>3 DEF Clears, Trying
<1>9. ASSUME NEW c \in LLMRequests, NEW q \in Providers,
             Incr(c, q) \/ Expire(c, q) \/ OpenBreaker(c, q) \/ RecordingLost(c, q)
      PROVE  KeysGone(p)' /\ Struck(p)'
  <2>1. UNCHANGED <<llm, strikes, crossed>> /\ p \notin crossed /\ recorder[c][q] # "none"
    BY <1>9 DEF Incr, Expire, OpenBreaker, RecordingLost
  <2>2. (\A d \in LLMRequests : (Clears(d, p)' <=> Clears(d, p)) /\ llm'[d] = llm[d]) /\ (Clearing(p)' <=> Clearing(p))
    BY <2>1 DEF Clears, Trying, Clearing
  <2>3. \A there \in Steps : Recorded(c, q, there) =>
           /\ recorder'[c][q] = there
           /\ \A d \in LLMRequests, o \in Providers : d # c \/ o # q => recorder'[d][o] = recorder[d][o]
    BY <1>0 DEF Recorded
  <2>4. failures[p] \in Nat /\ openTtl[p] \in Nat /\ strikes[p] \in 0..FAIL_THRESHOLD /\ failures[p] <= FAIL_THRESHOLD
    BY <1>0
  <2>5. CASE q # p
    <3>1. \A d \in LLMRequests : recorder'[d][p] = recorder[d][p]
      <4>1. \E there \in Steps : Recorded(c, q, there)
        BY <1>9 DEF Incr, Expire, OpenBreaker, RecordingLost
      <4>2. QED
        BY <1>0, <2>3, <2>5, <4>1
    <3>2. failures'[p] = failures[p] /\ openTtl'[p] = openTtl[p]
      BY <1>0, <1>9, <2>5 DEF Incr, Expire, OpenBreaker, RecordingLost, breakerVars
    <3>3. failures'[p] <= failures[p] /\ openTtl'[p] <= openTtl[p] /\ strikes'[p] = strikes[p]
      BY <2>1, <2>4, <3>2
    <3>4. QED
      BY <1>0, <1>1, <2>1, <2>2, <3>1, <3>3, BreakerCalm
  <2>6. CASE q = p
    <3>1. ~Clearing(p) /\ ~Clearing(p)' /\ Struck(p)
      BY <1>1, <2>1, <2>2, <2>6 DEF KeysGone, Recording
    <3>2. CASE Expire(c, p) \/ RecordingLost(c, p)
      <4>1. Recorded(c, p, "none") /\ failures' = failures /\ openTtl' = openTtl
        BY <3>2 DEF Expire, RecordingLost, breakerVars
      <4>2. \A d \in LLMRequests : recorder'[d][p] # recorder[d][p] => recorder'[d][p] = "none"
        BY <1>0, <2>3, <2>6, <4>1
      <4>3. failures'[p] <= failures[p] /\ openTtl'[p] <= openTtl[p] /\ strikes'[p] = strikes[p]
        BY <2>1, <2>4, <4>1
      <4>4. QED
        BY <1>0, <1>1, <2>1, <2>2, <4>2, <4>3, BreakerCalm
    <3>3. CASE OpenBreaker(c, p)
      <4>1. Recorded(c, p, "none") /\ recorder[c][p] = "open" /\ failures' = failures
        BY <3>3 DEF OpenBreaker
      <4>2. strikes[p] = FAIL_THRESHOLD
        BY <3>1, <4>1 DEF Struck
      <4>3. QED
        BY <2>1, <3>1, <4>2 DEF KeysGone, Struck
    <3>4. CASE Incr(c, p)
      <4> DEFINE n == Least(failures[p] + 1, FAIL_THRESHOLD)
                 there == IF n = 1 THEN "expire" ELSE IF n = FAIL_THRESHOLD THEN "open" ELSE "none"
      <4>1. /\ recorder[c][p] = "incr" /\ failures'[p] = n /\ openTtl'[p] = openTtl[p] /\ Recorded(c, p, there)
            /\ there \in Steps
        BY <1>0, <3>4 DEF Incr
      <4>2. n <= failures[p] + 1 /\ n \in Nat /\ (n = FAIL_THRESHOLD => failures[p] + 1 >= FAIL_THRESHOLD)
        BY <1>0, <2>4 DEF Least
      <4>3. there = "open" => failures[p] + 1 >= FAIL_THRESHOLD
        BY <4>2
      <4>4. there # "incr"
        OBVIOUS
      <4> HIDE DEF n, there
      <4>5. Incrs(p)' = Incrs(p) \ {c} /\ c \in Incrs(p)
        BY <1>0, <2>3, <2>6, <4>1, <4>4 DEF Incrs
      <4>6. IsFiniteSet(Incrs(p)) /\ Cardinality(Incrs(p)) \in Nat
        BY IncrsFinite DEF Incrs
      <4>7. Cardinality(Incrs(p)') = Cardinality(Incrs(p)) - 1 /\ Cardinality(Incrs(p)) # 0
        <5>1. Cardinality(Incrs(p)) # 0
          BY <4>5, <4>6, FS_EmptySet
        <5>2. QED
          BY <4>5, <4>6, <5>1, FS_RemoveElement
      <4>8. \A d \in LLMRequests : recorder'[d][p] = "open" =>
               recorder[d][p] = "open" \/ failures[p] + 1 >= FAIL_THRESHOLD
        BY <1>0, <2>3, <2>6, <4>1, <4>3
      <4>9. strikes[p] = FAIL_THRESHOLD \/ failures[p] + Cardinality(Incrs(p)) <= strikes[p]
        BY <3>1 DEF Struck
      <4>10. openTtl[p] > 0 \/ (\E d \in LLMRequests : recorder[d][p] = "open") => strikes[p] = FAIL_THRESHOLD
        BY <3>1 DEF Struck
      <4>11. failures[p] + 1 >= FAIL_THRESHOLD => strikes[p] = FAIL_THRESHOLD
        BY <1>0, <2>4, <4>6, <4>7, <4>9
      <4>12. strikes'[p] = FAIL_THRESHOLD \/ failures'[p] + Cardinality(Incrs(p)') <= strikes'[p]
        <5>1. strikes'[p] = strikes[p] /\ failures'[p] <= failures[p] + 1 /\ failures'[p] \in Nat
          BY <2>1, <4>1, <4>2
        <5>2. strikes[p] \in Nat /\ failures[p] \in Nat
          BY <1>0
        <5>3. failures'[p] + Cardinality(Incrs(p)') <= failures[p] + Cardinality(Incrs(p))
          BY <5>1, <5>2, <4>6, <4>7
        <5>4. Cardinality(Incrs(p)') \in Nat
          BY <4>6, <4>7
        <5>5. QED
          BY <5>1, <5>2, <5>3, <5>4, <4>6, <4>9
      <4>13. openTtl'[p] > 0 \/ (\E d \in LLMRequests : recorder'[d][p] = "open") => strikes'[p] = FAIL_THRESHOLD
        BY <2>1, <4>1, <4>8, <4>10, <4>11
      <4>14. QED
        BY <3>1, <4>12, <4>13 DEF KeysGone, Struck
    <3>5. QED
      BY <1>9, <2>6, <3>2, <3>3, <3>4
  <2>7. QED
    BY <2>5, <2>6
<1>10. CASE Tick
  <2>1. UNCHANGED <<llm, recorder, strikes, crossed>>
    BY <1>10 DEF Tick
  <2>2. failures'[p] <= failures[p] /\ openTtl'[p] <= openTtl[p]
    BY <1>0, <1>10 DEF Tick, Aged
  <2>3. QED
    BY <1>0, <1>1, <2>1, <2>2, BreakerCalm DEF Clears, Trying
<1>11. QED
  BY <1>3, <1>4, <1>5, <1>6, <1>7, <1>8, <1>9, <1>10 DEF LLMNext

(***************************************************************************)
(* A breaker that is open had FAIL_THRESHOLD failures with no answer in    *)
(* between (recordFailure, recordSuccess), unless an answer met a          *)
(* recording under way or its deletions failed.                            *)
(***************************************************************************)
THEOREM BreakersOpenOnFailures == LLMSpec => []OpenedByFailures
<1>1. LLMInit => BreakerInv
  BY BreakerInit
<1>2. LLMInv /\ LLMInv' /\ BreakerInv /\ [LLMNext]_llmVars => BreakerInv'
  BY BreakerStep
<1>3. BreakerInv => OpenedByFailures
  BY DEF BreakerInv, Struck, OpenedByFailures
<1>4. QED
  BY <1>1, <1>2, <1>3, LLMInvariance, PTL DEF LLMSpec

----------------------------------------------------------------------------
(***************************************************************************)
(* PromptVersions: type correctness, the history ends with the prompt, a   *)
(* scenario has one rule in force, and, of requests that do not overlap,   *)
(* the prompt is as decided.                                               *)
(***************************************************************************)
EditorPCs == {"idle", "publish", "rule", "insert", "check", "restore", "unrule", "off", "noted", "list", "rename"}

(* A request knows the correction it works for, and the decision it undoes. *)
RecFits(e) ==
    /\ e.pc \in {"publish", "rule", "insert", "check", "restore", "unrule", "off", "noted"} => e.fix \in Fixes
    /\ e.pc \in {"check", "restore", "unrule", "off", "noted", "list"} => e.of # 0
EditorsFit == \A r \in PromptReqs : RecFits(editor[r])

(* Of two rules for a scenario one is not in force. *)
OneRule == \A i, j \in ActiveRules : ScenarioOf[decisions[i].fix] = ScenarioOf[decisions[j].fix] => i = j

PromptInv == PromptTypeOK /\ EditorsFit /\ HistoryIsThePrompt /\ OneRule

----------------------------------------------------------------------------
LEMMA AtRest == EditorAtRest \in Editors /\ Blank \in Texts /\ EditorAtRest.pc = "idle" /\ EditorAtRest.of = 0
<1>1. Blank.name \in AgentNames /\ Blank \in Texts
  <2>1. <<>> \in Seq(Fixes)
    OBVIOUS
  <2>2. QED
    BY <2>1, PromptAssumption DEF Blank, Texts
<1>2. QED
  BY <1>1 DEF EditorAtRest, Editors

(* Sequences that grow by one. *)
LEMMA Grown ==
    ASSUME NEW S, NEW s \in Seq(S), NEW e \in S
    PROVE  /\ Append(s, e) \in Seq(S) /\ Len(Append(s, e)) = Len(s) + 1 /\ Len(s) \in Nat
           /\ DOMAIN s = 1..Len(s) /\ DOMAIN Append(s, e) = 1..(Len(s) + 1)
           /\ \A i \in 1..Len(s) : Append(s, e)[i] = s[i]
           /\ Append(s, e)[Len(s) + 1] = e
<1>1. /\ Append(s, e) \in Seq(S) /\ Len(Append(s, e)) = Len(s) + 1
      /\ \A i \in 1..Len(s) : Append(s, e)[i] = s[i]
      /\ Append(s, e)[Len(s) + 1] = e
  <2>1. Append(s, e) \in Seq(S)
    BY AppendProperties
  <2>2. Len(Append(s, e)) = Len(s) + 1
    BY AppendProperties, ZenonT(30)
  <2>3. \A i \in 1..Len(s) : Append(s, e)[i] = s[i]
    BY AppendProperties
  <2>4. Append(s, e)[Len(s) + 1] = e
    BY AppendProperties, ZenonT(30)
  <2>5. QED
    BY <2>1, <2>2, <2>3, <2>4
<1>2. Len(s) \in Nat /\ DOMAIN s = 1..Len(s) /\ DOMAIN Append(s, e) = 1..Len(Append(s, e))
  BY <1>1, LenProperties
<1>3. QED
  BY <1>1, <1>2

LEMMA ContainsGrown ==
    ASSUME NEW s \in Seq(Fixes), NEW f \in Fixes, NEW g
    PROVE  Contains(Append(s, f), g) <=> Contains(s, g) \/ g = f
<1>1. /\ Len(Append(s, f)) = Len(s) + 1 /\ Len(s) \in Nat
      /\ \A i \in 1..Len(s) : Append(s, f)[i] = s[i]
      /\ Append(s, f)[Len(s) + 1] = f
  BY Grown
<1>2. QED
  BY <1>1 DEF Contains

(* A decision added, and the rule of one changed. *)
LEMMA DecisionsGrow ==
    ASSUME NEW ds \in Seq(Decisions), NEW d \in Decisions
    PROVE  /\ Append(ds, d) \in Seq(Decisions) /\ Len(Append(ds, d)) = Len(ds) + 1 /\ Len(ds) \in Nat
           /\ DOMAIN ds = 1..Len(ds) /\ DOMAIN Append(ds, d) = 1..(Len(ds) + 1)
           /\ \A i \in 1..Len(ds) : Append(ds, d)[i] = ds[i]
           /\ Append(ds, d)[Len(ds) + 1] = d
<1> HIDE DEF Decisions
<1>1. QED
  BY Grown, ZenonT(30)

LEMMA RuleChanges ==
    ASSUME NEW ds \in Seq(Decisions), NEW i \in DOMAIN ds, NEW state \in RuleStates
    PROVE  LET es == [ds EXCEPT ![i].rule = state] IN
           /\ es \in Seq(Decisions) /\ Len(es) = Len(ds) /\ DOMAIN es = DOMAIN ds
           /\ es[i].rule = state
           /\ \A j \in DOMAIN ds :
                 /\ es[j].fix = ds[j].fix /\ es[j].kind = ds[j].kind
                 /\ es[j].before = ds[j].before /\ es[j].after = ds[j].after
                 /\ j # i => es[j] = ds[j]
<1> DEFINE es == [ds EXCEPT ![i].rule = state]
<1>1. DOMAIN ds = 1..Len(ds) /\ Len(ds) \in Nat /\ \A j \in 1..Len(ds) : ds[j] \in Decisions
  BY LenProperties
<1>2. es = [ds EXCEPT ![i] = [ds[i] EXCEPT !.rule = state]]
  OBVIOUS
<1>3. [ds[i] EXCEPT !.rule = state] \in Decisions
  BY <1>1 DEF Decisions
<1>4. es = [j \in 1..Len(ds) |-> IF j = i THEN [ds[i] EXCEPT !.rule = state] ELSE ds[j]]
  BY <1>1, <1>2
<1>5. \A j \in 1..Len(ds) : es[j] = (IF j = i THEN [ds[i] EXCEPT !.rule = state] ELSE ds[j]) /\ es[j] \in Decisions
  BY <1>1, <1>3, <1>4
<1>6. es \in [1..Len(ds) -> Decisions]
  BY <1>4, <1>5
<1>7. es \in Seq(Decisions)
  BY <1>1, <1>6
<1>8. Len(es) = Len(ds) /\ DOMAIN es = DOMAIN ds
  BY <1>1, <1>6, <1>7, LenProperties
<1>9. [ds[i] EXCEPT !.rule = state].rule = state /\ \A fld \in {"fix", "kind", "before", "after"} : [ds[i] EXCEPT !.rule = state][fld] = ds[i][fld]
  BY <1>1 DEF Decisions
<1>10. ds[i] \in Decisions /\ [ds[i] EXCEPT !.rule = state].fix = ds[i].fix /\ [ds[i] EXCEPT !.rule = state].kind = ds[i].kind
       /\ [ds[i] EXCEPT !.rule = state].before = ds[i].before /\ [ds[i] EXCEPT !.rule = state].after = ds[i].after
  BY <1>1 DEF Decisions
<1>11. QED
  BY <1>1, <1>5, <1>7, <1>8, <1>9, <1>10

----------------------------------------------------------------------------
(* The types, the history and the rules in force.                          *)
LEMMA PromptTypes ==
    ASSUME PromptInv
    PROVE  /\ agentName \in AgentNames /\ prompt \in Texts /\ versions \in Seq(Texts)
           /\ decisions \in Seq(Decisions) /\ DOMAIN decisions = 1..Len(decisions) /\ Len(decisions) \in Nat
           /\ \A i \in DOMAIN decisions : decisions[i] \in Decisions
           /\ editor \in [PromptReqs -> Editors] /\ undone \subseteq DOMAIN decisions
           /\ asRules \in BOOLEAN /\ overlapped \in BOOLEAN
           /\ \A r \in PromptReqs : editor[r] \in Editors /\ RecFits(editor[r]) /\ editor[r].of \in 0..Len(decisions)
<1>1. decisions \in Seq(Decisions) /\ DOMAIN decisions = 1..Len(decisions) /\ Len(decisions) \in Nat
  BY LenProperties DEF PromptInv, PromptTypeOK
<1>2. \A i \in DOMAIN decisions : decisions[i] \in Decisions
  BY <1>1
<1>3. QED
  BY <1>1, <1>2 DEF PromptInv, PromptTypeOK, EditorsFit

(* A request that reads: nothing but its record changes. *)
LEMMA EditKeeps ==
    ASSUME PromptInv, NEW r \in PromptReqs, NEW e \in Editors, RecFits(e), e.of \in 0..Len(decisions),
           editor' = [editor EXCEPT ![r] = e],
           UNCHANGED <<agentName, prompt, versions, decisions, asRules, undone>>, overlapped' \in BOOLEAN
    PROVE  PromptInv'
<1>1. editor' \in [PromptReqs -> Editors] /\ \A q \in PromptReqs : editor'[q] = IF q = r THEN e ELSE editor[q]
  BY PromptTypes
<1>2. PromptTypeOK'
  BY <1>1, PromptTypes DEF PromptTypeOK
<1>3. EditorsFit'
  BY <1>1, PromptTypes DEF EditorsFit
<1>4. HistoryIsThePrompt' /\ OneRule'
  BY DEF PromptInv, HistoryIsThePrompt, OneRule, ActiveRules
<1>5. QED
  BY <1>2, <1>3, <1>4 DEF PromptInv

(* A request that commits and ends. *)
LEMMA CommitKeeps ==
    ASSUME PromptInv, NEW r \in PromptReqs, Ends(r), UNCHANGED <<asRules, overlapped>>,
           decisions' \in Seq(Decisions), Len(decisions) <= Len(decisions'), OneRule',
           undone' \subseteq DOMAIN decisions', agentName' \in AgentNames, prompt' \in Texts,
           versions' \in Seq(Texts), HistoryIsThePrompt'
    PROVE  PromptInv'
<1>1. editor' \in [PromptReqs -> Editors] /\ \A q \in PromptReqs : editor'[q] = IF q = r THEN EditorAtRest ELSE editor[q]
  BY AtRest, PromptTypes DEF Ends
<1>2. \A q \in PromptReqs : editor'[q].of \in 0..Len(decisions')
  <2>1. Len(decisions') \in Nat
    OBVIOUS
  <2>2. QED
    BY <1>1, <2>1, AtRest, PromptTypes
<1>3. PromptTypeOK'
  BY <1>1, <1>2, PromptTypes DEF PromptTypeOK
<1>4. EditorsFit'
  BY <1>1, AtRest, PromptTypes DEF EditorsFit, RecFits
<1>5. QED
  BY <1>3, <1>4 DEF PromptInv

(* The trigger keeps the history.                                          *)
LEMMA HistoryKept ==
    ASSUME PromptInv, NEW r, NEW t \in Texts, WritesPrompt(r, t)
    PROVE  prompt' = t /\ versions' \in Seq(Texts) /\ HistoryIsThePrompt'
<1> DEFINE n == Len(versions)
<1>0. /\ versions \in Seq(Texts) /\ versions # <<>> /\ versions[n] = prompt /\ prompt \in Texts
      /\ \A i \in 1..(n - 1) : versions[i] # versions[i + 1]
  BY PromptTypes DEF PromptInv, HistoryIsThePrompt, Last
<1>1. CASE t = prompt
  BY <1>1 DEF WritesPrompt, PromptInv, HistoryIsThePrompt, PromptTypeOK
<1>2. CASE t # prompt
  <2>1. prompt' = t /\ versions' = Append(versions, t)
    BY <1>2 DEF WritesPrompt
  <2>2. /\ versions' \in Seq(Texts) /\ Len(versions') = n + 1 /\ n \in Nat
        /\ \A i \in 1..n : versions'[i] = versions[i]
        /\ versions'[n + 1] = t
    <3> HIDE DEF Texts
    <3>1. QED
      BY <1>0, <2>1, Grown
  <2>3. n # 0 /\ versions' # <<>>
    BY <1>0, <2>2
  <2> HIDE DEF n
  <2>4. \A i \in 1..n : versions'[i] # versions'[i + 1]
    <3> SUFFICES ASSUME NEW i \in 1..n PROVE versions'[i] # versions'[i + 1]
      OBVIOUS
    <3>1. CASE i = n
      BY <1>0, <1>2, <2>2, <3>1
    <3>2. CASE i # n
      BY <1>0, <2>2, <3>2
    <3>3. QED
      BY <3>1, <3>2
  <2>5. QED
    BY <2>1, <2>2, <2>3, <2>4 DEF HistoryIsThePrompt, Last
<1>3. QED
  BY <1>1, <1>2

LEMMA PromptInitInv == PromptInit => PromptInv
<1> SUFFICES ASSUME PromptInit PROVE PromptInv
  OBVIOUS
<1>1. prompt \in Texts /\ agentName \in AgentNames
  <2>1. <<>> \in Seq(Fixes)
    OBVIOUS
  <2>2. QED
    BY <2>1 DEF PromptInit, Texts
<1>2. versions = <<prompt>> /\ decisions = <<>> /\ undone = {} /\ overlapped \in BOOLEAN /\ asRules \in BOOLEAN
      /\ editor = [r \in PromptReqs |-> EditorAtRest]
  BY DEF PromptInit
<1>3. versions \in Seq(Texts) /\ Len(versions) = 1 /\ versions[1] = prompt /\ versions # <<>>
  <2> HIDE DEF Texts
  <2>1. QED
    BY <1>1, <1>2
<1>4. <<>> \in Seq(Decisions) /\ Len(<<>>) = 0 /\ DOMAIN decisions = {}
  BY <1>2
<1>5. PromptTypeOK
  BY <1>1, <1>2, <1>3, <1>4, AtRest DEF PromptTypeOK
<1>6. EditorsFit
  BY <1>2, AtRest DEF EditorsFit, RecFits
<1>7. HistoryIsThePrompt
  BY <1>3 DEF HistoryIsThePrompt, Last
<1>8. OneRule
  BY <1>4 DEF OneRule, ActiveRules
<1>9. QED
  BY <1>5, <1>6, <1>7, <1>8 DEF PromptInv

(* What the requests read and become, step by step.                        *)
Applying(e, f) ==
    /\ e.of = 0 /\ e.fix = f /\ ~Decided(f)
    /\ \/ e.pc = "rule"
       \/ /\ e.pc = "publish" /\ e.was = prompt /\ ~Contains(prompt.fixes, f)
          /\ e.doc = [prompt EXCEPT !.fixes = Append(@, f)]

LEMMA ApplyReadsTo ==
    ASSUME PromptInv, NEW r \in PromptReqs, NEW f \in Fixes, NEW admin \in BOOLEAN, ApplyReads(r, f, admin)
    PROVE  \E e \in Editors : Starts(r, e) /\ RecFits(e) /\ Applying(e, f)
<1>1. prompt \in Texts
  BY PromptTypes
<1>2. [prompt EXCEPT !.fixes = Append(@, f)] \in Texts
  BY <1>1 DEF Texts
<1>3. CASE Starts(r, [EditorAtRest EXCEPT !.pc = "rule", !.fix = f, !.doc = prompt])
  <2> DEFINE e == [EditorAtRest EXCEPT !.pc = "rule", !.fix = f, !.doc = prompt]
  <2>1. e \in Editors /\ e.pc = "rule" /\ e.of = 0 /\ e.fix = f
    BY <1>1, AtRest DEF Editors
  <2>2. QED
    BY <1>3, <2>1 DEF ApplyReads, RecFits, Applying
<1>4. CASE /\ ~Contains(prompt.fixes, f)
           /\ Starts(r, [EditorAtRest EXCEPT !.pc = "publish", !.fix = f,
                         !.doc = [prompt EXCEPT !.fixes = Append(@, f)], !.was = prompt])
  <2> DEFINE t == [prompt EXCEPT !.fixes = Append(@, f)]
  <2> HIDE DEF t
  <2> DEFINE e == [EditorAtRest EXCEPT !.pc = "publish", !.fix = f, !.doc = t, !.was = prompt]
  <2>1. e \in Editors /\ e.pc = "publish" /\ e.of = 0 /\ e.fix = f /\ e.was = prompt /\ e.doc = t
    BY <1>1, <1>2, AtRest DEF Editors, t
  <2>2. Starts(r, e)
    BY <1>4 DEF t
  <2> HIDE DEF e
  <2>3. ~Decided(f)
    BY DEF ApplyReads
  <2>4. QED
    BY <1>4, <2>1, <2>2, <2>3 DEF RecFits, Applying, t
<1>5. QED
  BY <1>3, <1>4 DEF ApplyReads

LEMMA RevertReadsTo ==
    ASSUME PromptInv, NEW r \in PromptReqs, NEW i \in DOMAIN decisions, NEW admin \in BOOLEAN, RevertReads(r, i, admin)
    PROVE  \E e \in Editors :
              /\ Starts(r, e) /\ RecFits(e) /\ e.of = i /\ e.fix = decisions[i].fix
              /\ decisions[i].kind = "applied" /\ e.doc = decisions[i].before /\ e.was = decisions[i].after
              /\ \/ e.pc = "unrule" /\ decisions[i].rule = "ativa"
                 \/ e.pc = "check"
<1>1. decisions[i] \in Decisions /\ i \in Nat /\ i # 0 /\ decisions[i].kind = "applied"
  BY PromptTypes DEF RevertReads
<1> DEFINE back == [EditorAtRest EXCEPT !.pc = "check", !.of = i, !.fix = decisions[i].fix,
                                        !.doc = decisions[i].before, !.was = decisions[i].after]
<1>2. /\ back \in Editors /\ back.pc = "check" /\ back.of = i /\ back.fix = decisions[i].fix /\ back.fix \in Fixes
      /\ back.doc = decisions[i].before /\ back.was = decisions[i].after
  BY <1>1, AtRest DEF Editors, Decisions
<1>3. \/ decisions[i].rule = "ativa" /\ Starts(r, [back EXCEPT !.pc = "unrule"])
      \/ Starts(r, back)
  BY DEF RevertReads
<1> HIDE DEF back
<1>4. CASE decisions[i].rule = "ativa" /\ Starts(r, [back EXCEPT !.pc = "unrule"])
  <2> DEFINE e == [back EXCEPT !.pc = "unrule"]
  <2>1. /\ e \in Editors /\ e.pc = "unrule" /\ e.of = i /\ e.fix = decisions[i].fix /\ e.fix \in Fixes
        /\ e.doc = decisions[i].before /\ e.was = decisions[i].after
    BY <1>2 DEF Editors
  <2>2. QED
    BY <1>1, <1>4, <2>1 DEF RecFits
<1>5. CASE Starts(r, back)
  BY <1>1, <1>2, <1>5 DEF RecFits
<1>6. QED
  BY <1>3, <1>4, <1>5

LEMMA RenameTo ==
    ASSUME NEW t \in Texts, NEW old \in AgentNames, NEW new \in AgentNames
    PROVE  LET u == renameAgentInPrompt(t, old, new) IN
           u \in Texts /\ u.fixes = t.fixes /\ u.name = IF t.name = old THEN new ELSE t.name
  BY DEF renameAgentInPrompt, Texts

LEMMA SyncReadsTo ==
    ASSUME PromptInv, NEW r \in PromptReqs, NEW n \in AgentNames, SyncReads(r, n)
    PROVE  \E e \in Editors :
              /\ Starts(r, e) /\ RecFits(e) /\ e.of = 0 /\ e.pc = "rename"
              /\ e.name = n /\ e.was = prompt /\ e.doc = renameAgentInPrompt(prompt, agentName, n)
<1> DEFINE u == renameAgentInPrompt(prompt, agentName, n)
           e == [EditorAtRest EXCEPT !.pc = "rename", !.name = n, !.was = prompt, !.doc = u]
<1>1. u \in Texts /\ prompt \in Texts
  BY PromptTypes, RenameTo
<1>2. Starts(r, e)
  BY DEF SyncReads
<1> HIDE DEF u
<1>3. e \in Editors /\ e.of = 0 /\ e.pc = "rename" /\ e.name = n /\ e.was = prompt /\ e.doc = u
  BY <1>1, AtRest DEF Editors
<1> HIDE DEF e
<1>4. QED
  BY <1>2, <1>3 DEF RecFits, u

LEMMA RuleFindsTo ==
    ASSUME PromptInv, NEW r \in PromptReqs, NEW i \in DOMAIN decisions, RuleFinds(r, i)
    PROVE  \E e \in Editors :
              Starts(r, e) /\ RecFits(e) /\ e.of = i /\ e.pc = "list" /\ decisions[i].rule = "ativa"
<1> DEFINE e == [EditorAtRest EXCEPT !.pc = "list", !.of = i]
<1>1. i \in Nat /\ i # 0
  BY PromptTypes
<1>2. e \in Editors /\ e.of = i /\ e.pc = "list"
  BY <1>1, AtRest DEF Editors
<1>3. QED
  BY <1>1, <1>2 DEF RuleFinds, RecFits

(* A request goes on, or ends, without a commit.                           *)
LEMMA GoesOn ==
    ASSUME PromptInv, NEW r \in PromptReqs, NEW where \in EditorPCs \ {"idle"}
    PROVE  LET e == [editor[r] EXCEPT !.pc = where] IN
           /\ e \in Editors /\ e.pc = where
           /\ e.of = editor[r].of /\ e.fix = editor[r].fix /\ e.name = editor[r].name
           /\ e.doc = editor[r].doc /\ e.was = editor[r].was
<1>1. editor[r] \in Editors
  BY PromptTypes
<1>2. QED
  BY <1>1 DEF Editors, EditorPCs

Waits(r, where) == Goes(r, where) /\ (where = "idle" \/
    (where \in EditorPCs /\ RecFits([editor[r] EXCEPT !.pc = where])))

LEMMA WaitKeeps ==
    ASSUME PromptInv, NEW r \in PromptReqs, NEW where \in EditorPCs, Waits(r, where)
    PROVE  /\ PromptInv' /\ UNCHANGED <<agentName, prompt, versions, decisions, asRules, undone, overlapped>>
           /\ editor' = [editor EXCEPT ![r] = IF where = "idle" THEN EditorAtRest ELSE [editor[r] EXCEPT !.pc = where]]
<1>1. /\ UNCHANGED <<agentName, prompt, versions, decisions, asRules, undone, overlapped>>
      /\ editor' = [editor EXCEPT ![r] = IF where = "idle" THEN EditorAtRest ELSE [editor[r] EXCEPT !.pc = where]]
  BY DEF Waits, Goes
<1>2. overlapped' \in BOOLEAN
  BY <1>1, PromptTypes
<1>3. CASE where = "idle"
  <2>1. RecFits(EditorAtRest) /\ EditorAtRest.of \in 0..Len(decisions)
    BY AtRest, PromptTypes DEF RecFits
  <2>2. editor' = [editor EXCEPT ![r] = EditorAtRest]
    BY <1>1, <1>3
  <2>3. QED
    BY <1>1, <1>2, <2>1, <2>2, AtRest, EditKeeps
<1>4. CASE where # "idle"
  <2> DEFINE e == [editor[r] EXCEPT !.pc = where]
  <2>1. e \in Editors /\ e.of = editor[r].of
    BY <1>4, GoesOn
  <2>2. RecFits(e) /\ editor' = [editor EXCEPT ![r] = e]
    BY <1>1, <1>4 DEF Waits
  <2> HIDE DEF e
  <2>3. e.of \in 0..Len(decisions)
    BY <2>1, PromptTypes
  <2>4. PromptInv'
    BY <1>1, <1>2, <2>1, <2>2, <2>3, EditKeeps
  <2>5. QED
    BY <1>1, <2>4
<1>5. QED
  BY <1>3, <1>4

LEMMA StartKeeps ==
    ASSUME PromptInv, NEW r \in PromptReqs, NEW e \in Editors, RecFits(e), e.of \in 0..Len(decisions), Starts(r, e)
    PROVE  PromptInv'
<1>1. overlapped' \in BOOLEAN
  BY PromptTypes DEF Starts
<1>2. QED
  BY <1>1, EditKeeps DEF Starts

(* The steps that end without a commit, or go on. *)
LEMMA WaitingSteps ==
    ASSUME PromptInv, NEW r \in PromptReqs
    PROVE  /\ RevertChecks(r) => \E where \in {"restore", "idle"} :
                  Waits(r, where) /\ editor[r].pc = "check" /\ (where = "restore" => prompt = editor[r].was)
           /\ RuleFound(r) => \E where \in {"off", "noted"} :
                  Waits(r, where) /\ editor[r].pc = "unrule"
           /\ EditFails(r) => Waits(r, "idle")
<1>1. editor[r] \in Editors /\ RecFits(editor[r])
  BY PromptTypes
<1>2. ASSUME NEW where \in {"restore", "off", "noted"}, editor[r].pc \in {"check", "unrule"}, Goes(r, where)
      PROVE  Waits(r, where)
  <2> DEFINE e == [editor[r] EXCEPT !.pc = where]
  <2>1. e.pc = where /\ e.of = editor[r].of /\ e.fix = editor[r].fix
    BY <1>1 DEF Editors
  <2>2. RecFits(e)
    BY <1>1, <1>2, <2>1 DEF RecFits
  <2>3. QED
    BY <1>2, <2>2 DEF Waits, EditorPCs
<1>3. RevertChecks(r) => \E where \in {"restore", "idle"} :
         Waits(r, where) /\ editor[r].pc = "check" /\ (where = "restore" => prompt = editor[r].was)
  <2> SUFFICES ASSUME RevertChecks(r) PROVE \E where \in {"restore", "idle"} :
         Waits(r, where) /\ editor[r].pc = "check" /\ (where = "restore" => prompt = editor[r].was)
    OBVIOUS
  <2>1. CASE prompt = editor[r].was
    BY <1>2, <2>1 DEF RevertChecks, EditorAt, Unchanged
  <2>2. CASE prompt # editor[r].was
    BY <2>2 DEF RevertChecks, EditorAt, Unchanged, Waits
  <2>3. QED
    BY <2>1, <2>2
<1>4. RuleFound(r) => \E where \in {"off", "noted"} : Waits(r, where) /\ editor[r].pc = "unrule"
  <2> SUFFICES ASSUME RuleFound(r) PROVE \E where \in {"off", "noted"} : Waits(r, where) /\ editor[r].pc = "unrule"
    OBVIOUS
  <2>1. CASE decisions[editor[r].of].rule = "ativa"
    BY <1>2, <2>1 DEF RuleFound, EditorAt
  <2>2. CASE decisions[editor[r].of].rule # "ativa"
    BY <1>2, <2>2 DEF RuleFound, EditorAt
  <2>3. QED
    BY <2>1, <2>2
<1>5. EditFails(r) => Waits(r, "idle")
  BY DEF EditFails, Waits
<1>6. QED
  BY <1>3, <1>4, <1>5

LEMMA RuleReadsTo ==
    ASSUME PromptInv, NEW r \in PromptReqs, RuleReads(r)
    PROVE  /\ editor[r].pc = "rule"
           /\ \/ Waits(r, "idle")
              \/ \E i \in {0} \cup ActiveRules :
                    /\ editor' = [editor EXCEPT ![r].pc = "insert", ![r].of = i]
                    /\ UNCHANGED <<agentName, prompt, versions, decisions, asRules, undone, overlapped>>
  BY DEF RuleReads, EditorAt, RulesOf, Waits

(* Rules in force: fewer, or one more for a scenario that had none left.   *)
LEMMA RulesShrink ==
    ASSUME PromptInv, ActiveRules' \subseteq ActiveRules,
           \A i \in ActiveRules' : decisions'[i].fix = decisions[i].fix
    PROVE  OneRule'
  BY DEF PromptInv, OneRule

(* A decision about the prompt is added, the rules stay as they are.       *)
LEMMA DecisionAdded ==
    ASSUME PromptInv, NEW d \in Decisions, d.rule = "none", decisions' = Append(decisions, d)
    PROVE  /\ OneRule' /\ decisions' \in Seq(Decisions) /\ Len(decisions') = Len(decisions) + 1
           /\ DOMAIN decisions' = 1..(Len(decisions) + 1)
           /\ \A i \in DOMAIN decisions : decisions'[i] = decisions[i]
           /\ decisions'[Len(decisions) + 1] = d
<1>1. /\ decisions' \in Seq(Decisions) /\ Len(decisions') = Len(decisions) + 1 /\ Len(decisions) \in Nat
      /\ DOMAIN decisions = 1..Len(decisions) /\ DOMAIN decisions' = 1..(Len(decisions) + 1)
      /\ \A i \in 1..Len(decisions) : decisions'[i] = decisions[i]
      /\ decisions'[Len(decisions) + 1] = d
  BY PromptTypes, DecisionsGrow
<1>2. ActiveRules' \subseteq ActiveRules /\ \A i \in ActiveRules' : decisions'[i].fix = decisions[i].fix
  BY <1>1 DEF ActiveRules
<1>3. QED
  BY <1>1, <1>2, RulesShrink

(* A rule goes out of force.                                               *)
LEMMA RuleGoes ==
    ASSUME PromptInv, NEW i \in DOMAIN decisions, NEW state \in RuleStates, state # "ativa"
    PROVE  LET es == [decisions EXCEPT ![i].rule = state] IN
           /\ es \in Seq(Decisions) /\ Len(es) = Len(decisions) /\ DOMAIN es = DOMAIN decisions
           /\ \A j \in DOMAIN es : /\ es[j].fix = decisions[j].fix /\ es[j].kind = decisions[j].kind
                                   /\ es[j].before = decisions[j].before /\ es[j].after = decisions[j].after
                                   /\ es[j].rule = IF j = i THEN state ELSE decisions[j].rule
<1> DEFINE es == [decisions EXCEPT ![i].rule = state]
<1>1. decisions \in Seq(Decisions)
  BY PromptTypes
<1>2. /\ es \in Seq(Decisions) /\ Len(es) = Len(decisions) /\ DOMAIN es = DOMAIN decisions
      /\ es[i].rule = state
      /\ \A j \in DOMAIN decisions :
            /\ es[j].fix = decisions[j].fix /\ es[j].kind = decisions[j].kind
            /\ es[j].before = decisions[j].before /\ es[j].after = decisions[j].after
            /\ j # i => es[j] = decisions[j]
  BY <1>1, RuleChanges
<1> HIDE DEF es
<1>3. QED
  BY <1>2 DEF es

(* Decisions whose rules may have changed, and one more.                   *)
LEMMA Adds ==
    ASSUME PromptInv, NEW ds \in Seq(Decisions), Len(ds) = Len(decisions), NEW d \in Decisions,
           decisions' = Append(ds, d)
    PROVE  /\ decisions' \in Seq(Decisions) /\ Len(decisions') = Len(decisions) + 1
           /\ DOMAIN decisions' = 1..(Len(decisions) + 1) /\ DOMAIN decisions = 1..Len(decisions)
           /\ \A i \in DOMAIN decisions : decisions'[i] = ds[i]
           /\ decisions'[Len(decisions) + 1] = d
  BY PromptTypes, DecisionsGrow

LEMMA MadeDecision ==
    ASSUME NEW f \in Fixes, NEW kind \in {"applied", "reverted"}, NEW rule \in RuleStates,
           NEW b \in Texts, NEW a \in Texts
    PROVE  LET d == Decision(f, kind, rule, b, a) IN
           d \in Decisions /\ d.fix = f /\ d.kind = kind /\ d.rule = rule /\ d.before = b /\ d.after = a
  BY DEF Decision, Decisions

LEMMA EditorTypes ==
    ASSUME PromptInv, NEW r \in PromptReqs
    PROVE  /\ editor[r].of \in 0..Len(decisions) /\ editor[r].name \in AgentNames
           /\ editor[r].doc \in Texts /\ editor[r].was \in Texts /\ RecFits(editor[r])
           /\ editor[r].pc \in EditorPCs
  BY PromptTypes DEF Editors, EditorPCs

(* What the commits do to the decisions.                                   *)
LEMMA PublishAdds ==
    ASSUME PromptInv, NEW r \in PromptReqs, NEW kind \in {"applied", "reverted"}, NEW t \in Texts, NEW u \in Texts,
           editor[r].fix \in Fixes, decisions' = Append(decisions, Decision(editor[r].fix, kind, "none", t, u))
    PROVE  /\ OneRule' /\ decisions' \in Seq(Decisions) /\ Len(decisions') = Len(decisions) + 1
           /\ DOMAIN decisions' = 1..(Len(decisions) + 1)
           /\ \A i \in DOMAIN decisions : decisions'[i] = decisions[i]
           /\ decisions'[Len(decisions) + 1] = Decision(editor[r].fix, kind, "none", t, u)
<1>1. /\ Decision(editor[r].fix, kind, "none", t, u) \in Decisions
      /\ Decision(editor[r].fix, kind, "none", t, u).rule = "none"
  BY MadeDecision DEF RuleStates
<1>2. QED
  BY <1>1, DecisionAdded

LEMMA InsertsTo ==
    ASSUME PromptInv, NEW r \in PromptReqs, editor[r].pc = "insert", InsertsRule(r)
    PROVE  \E ds \in Seq(Decisions) :
              /\ Len(ds) = Len(decisions)
              /\ \A j \in DOMAIN decisions :
                    /\ ds[j].fix = decisions[j].fix /\ ds[j].kind = decisions[j].kind
                    /\ ds[j].before = decisions[j].before /\ ds[j].after = decisions[j].after
                    /\ ds[j].rule = IF j = editor[r].of /\ decisions[j].rule = "ativa"
                                    THEN "substituida" ELSE decisions[j].rule
              /\ decisions' = Append(ds, Decision(editor[r].fix, "applied", "ativa", editor[r].doc, editor[r].doc))
<1> DEFINE me == editor[r]
           es == [decisions EXCEPT ![me.of].rule = "substituida"]
           d == Decision(me.fix, "applied", "ativa", me.doc, me.doc)
<1>1. me.of \in 0..Len(decisions) /\ decisions \in Seq(Decisions) /\ Len(decisions) \in Nat /\ DOMAIN decisions = 1..Len(decisions)
  BY PromptTypes
<1>2. decisions' = Append(IF me.of # 0 /\ decisions[me.of].rule = "ativa" THEN es ELSE decisions, d)
  BY DEF InsertsRule
<1> HIDE DEF d, me
<1>3. CASE me.of # 0 /\ decisions[me.of].rule = "ativa"
  <2>1. me.of \in DOMAIN decisions
    BY <1>1, <1>3
  <2>2. /\ es \in Seq(Decisions) /\ Len(es) = Len(decisions) /\ DOMAIN es = DOMAIN decisions
        /\ \A j \in DOMAIN es : /\ es[j].fix = decisions[j].fix /\ es[j].kind = decisions[j].kind
                                /\ es[j].before = decisions[j].before /\ es[j].after = decisions[j].after
                                /\ es[j].rule = IF j = me.of THEN "substituida" ELSE decisions[j].rule
    BY <2>1, RuleGoes DEF RuleStates
  <2>3. decisions' = Append(es, d)
    BY <1>2, <1>3
  <2> HIDE DEF es
  <2>4. \A j \in DOMAIN decisions :
           /\ es[j].fix = decisions[j].fix /\ es[j].kind = decisions[j].kind
           /\ es[j].before = decisions[j].before /\ es[j].after = decisions[j].after
           /\ es[j].rule = IF j = me.of /\ decisions[j].rule = "ativa" THEN "substituida" ELSE decisions[j].rule
    BY <1>3, <2>2
  <2>5. QED
    BY <2>2, <2>3, <2>4 DEF d, me
<1>4. CASE ~(me.of # 0 /\ decisions[me.of].rule = "ativa")
  <2>1. decisions' = Append(decisions, d)
    BY <1>2, <1>4
  <2>2. \A j \in DOMAIN decisions : ~(j = me.of /\ decisions[j].rule = "ativa")
    BY <1>1, <1>4
  <2>3. QED
    BY <1>1, <2>1, <2>2 DEF d, me
<1>5. QED
  BY <1>3, <1>4

(* The rule a commit inserts is the only one of its scenario.              *)
LEMMA RuleInserted ==
    ASSUME PromptInv, NEW r \in PromptReqs, RuleCommits(r)
    PROVE  OneRule' /\ decisions' \in Seq(Decisions) /\ Len(decisions') = Len(decisions) + 1
<1> DEFINE me == editor[r]
           n == Len(decisions)
           d == Decision(me.fix, "applied", "ativa", me.doc, me.doc)
<1>1. me.pc = "insert" /\ InsertsRule(r) /\ me.fix \in Fixes /\ me.doc \in Texts /\ n \in Nat
      /\ RulesOf(ScenarioOf[me.fix]) \subseteq {me.of}
  BY EditorTypes, PromptTypes DEF RuleCommits, EditorAt, RecFits
<1>2. PICK ds \in Seq(Decisions) :
              /\ Len(ds) = n
              /\ \A j \in DOMAIN decisions :
                    /\ ds[j].fix = decisions[j].fix
                    /\ ds[j].rule = IF j = me.of /\ decisions[j].rule = "ativa"
                                    THEN "substituida" ELSE decisions[j].rule
              /\ decisions' = Append(ds, d)
  BY <1>1, InsertsTo
<1>3. d \in Decisions /\ d.fix = me.fix
  BY <1>1, MadeDecision DEF RuleStates
<1> HIDE DEF d, me, n
<1>4. /\ decisions' \in Seq(Decisions) /\ Len(decisions') = n + 1
      /\ DOMAIN decisions' = 1..(n + 1) /\ DOMAIN decisions = 1..n
      /\ \A i \in DOMAIN decisions : decisions'[i] = ds[i]
      /\ decisions'[n + 1] = d
  BY <1>2, <1>3, Adds DEF n
<1>5. \A i \in ActiveRules' : /\ i \in ActiveRules /\ decisions'[i].fix = decisions[i].fix /\ i # me.of
                             \/ i = n + 1
  BY <1>1, <1>2, <1>4 DEF ActiveRules
<1>6. \A i \in ActiveRules : i # me.of => ScenarioOf[decisions[i].fix] # ScenarioOf[me.fix]
  BY <1>1 DEF RulesOf
<1>7. decisions'[n + 1].fix = me.fix
  BY <1>3, <1>4
<1>8. OneRule'
  <2> SUFFICES ASSUME NEW i \in ActiveRules', NEW j \in ActiveRules',
                      ScenarioOf[decisions'[i].fix] = ScenarioOf[decisions'[j].fix]
               PROVE  i = j
    BY DEF OneRule
  <2>1. CASE i = n + 1 \/ j = n + 1
    BY <1>5, <1>6, <1>7, <2>1
  <2>2. CASE i # n + 1 /\ j # n + 1
    BY <1>5, <2>2 DEF PromptInv, OneRule
  <2>3. QED
    BY <2>1, <2>2
<1>9. QED
  BY <1>4, <1>8 DEF n

LEMMA RuleOff ==
    ASSUME PromptInv, NEW i \in DOMAIN decisions
    PROVE  LET es == Off(decisions, i) IN
           /\ es \in Seq(Decisions) /\ Len(es) = Len(decisions) /\ DOMAIN es = DOMAIN decisions
           /\ \A j \in DOMAIN decisions : /\ es[j].fix = decisions[j].fix /\ es[j].kind = decisions[j].kind
                                   /\ es[j].before = decisions[j].before /\ es[j].after = decisions[j].after
                                   /\ es[j].rule = IF j = i THEN "revertida" ELSE decisions[j].rule
  BY RuleGoes DEF Off, RuleStates

LEMMA PromptStep == PromptInv /\ [PromptNext]_promptVars => PromptInv'
<1> SUFFICES ASSUME PromptInv, [PromptNext]_promptVars PROVE PromptInv'
  OBVIOUS
<1>0. Len(decisions) \in Nat /\ DOMAIN decisions = 1..Len(decisions) /\ decisions \in Seq(Decisions)
  BY PromptTypes
<1>1. ASSUME NEW r \in PromptReqs, NEW f \in Fixes, NEW admin \in BOOLEAN, ApplyReads(r, f, admin) PROVE PromptInv'
  <2>1. PICK e \in Editors : Starts(r, e) /\ RecFits(e) /\ Applying(e, f)
    BY <1>1, ApplyReadsTo
  <2>2. e.of \in 0..Len(decisions)
    BY <1>0, <2>1 DEF Applying
  <2>3. QED
    BY <2>1, <2>2, StartKeeps
<1>2. ASSUME NEW r \in PromptReqs, NEW i \in DOMAIN decisions, NEW admin \in BOOLEAN, RevertReads(r, i, admin)
      PROVE  PromptInv'
  BY <1>0, <1>2, RevertReadsTo, StartKeeps
<1>3. ASSUME NEW r \in PromptReqs, NEW i \in DOMAIN decisions, RuleFinds(r, i) PROVE PromptInv'
  BY <1>0, <1>3, RuleFindsTo, StartKeeps
<1>4. ASSUME NEW r \in PromptReqs, NEW n \in AgentNames, SyncReads(r, n) PROVE PromptInv'
  BY <1>0, <1>4, SyncReadsTo, StartKeeps
<1>5. ASSUME NEW r \in PromptReqs, ApplyCommits(r) PROVE PromptInv'
  <2>1. editor[r].fix \in Fixes /\ editor[r].was \in Texts /\ editor[r].doc \in Texts
    BY <1>5, EditorTypes DEF ApplyCommits, EditorAt, RecFits
  <2>2. OneRule' /\ decisions' \in Seq(Decisions) /\ Len(decisions') = Len(decisions) + 1
    BY <1>5, <2>1, PublishAdds DEF ApplyCommits
  <2>3. prompt' \in Texts /\ versions' \in Seq(Texts) /\ HistoryIsThePrompt'
    BY <1>5, <2>1, HistoryKept DEF ApplyCommits
  <2>4. undone' \subseteq DOMAIN decisions' /\ agentName' \in AgentNames
    BY <1>0, <1>5, <2>2, PromptTypes DEF ApplyCommits
  <2>5. QED
    BY <1>0, <1>5, <2>2, <2>3, <2>4, CommitKeeps DEF ApplyCommits
<1>6. ASSUME NEW r \in PromptReqs, RuleReads(r) PROVE PromptInv'
  <2>1. CASE Waits(r, "idle")
    BY <2>1, WaitKeeps DEF EditorPCs
  <2>2. ASSUME NEW i \in {0} \cup ActiveRules,
               editor' = [editor EXCEPT ![r].pc = "insert", ![r].of = i],
               UNCHANGED <<agentName, prompt, versions, decisions, asRules, undone, overlapped>>
        PROVE  PromptInv'
    <3> DEFINE e == [editor[r] EXCEPT !.pc = "insert", !.of = i]
    <3>1. editor[r] \in Editors /\ editor[r].pc = "rule" /\ RecFits(editor[r]) /\ editor \in [PromptReqs -> Editors]
      BY <1>6, PromptTypes, RuleReadsTo
    <3>2. i \in 0..Len(decisions)
      BY <1>0 DEF ActiveRules
    <3>3. e \in Editors /\ e.pc = "insert" /\ e.of = i /\ e.fix \in Fixes
      <4>1. i \in Nat /\ editor[r].fix \in Fixes
        BY <1>0, <3>1, <3>2 DEF RecFits
      <4>2. QED
        BY <3>1, <4>1 DEF Editors
    <3>4. editor' = [editor EXCEPT ![r] = e]
      BY <2>2, <3>1
    <3> HIDE DEF e
    <3>5. RecFits(e) /\ overlapped' \in BOOLEAN
      BY <2>2, <3>3, PromptTypes DEF RecFits
    <3>6. QED
      BY <2>2, <3>2, <3>3, <3>4, <3>5, EditKeeps
  <2>3. QED
    BY <1>6, <2>1, <2>2, RuleReadsTo
<1>7. ASSUME NEW r \in PromptReqs, RuleCommits(r) PROVE PromptInv'
  <2>1. OneRule' /\ decisions' \in Seq(Decisions) /\ Len(decisions') = Len(decisions) + 1
    BY <1>7, RuleInserted
  <2>2. Ends(r) /\ UNCHANGED <<agentName, prompt, versions, asRules, undone, overlapped>>
    BY <1>7 DEF RuleCommits
  <2>3. undone' \subseteq DOMAIN decisions'
    BY <1>0, <2>1, <2>2, PromptTypes
  <2>4. agentName' \in AgentNames /\ prompt' \in Texts /\ versions' \in Seq(Texts) /\ HistoryIsThePrompt'
    BY <2>2, PromptTypes DEF PromptInv, HistoryIsThePrompt
  <2>5. QED
    BY <1>0, <2>1, <2>2, <2>3, <2>4, CommitKeeps
<1>8. ASSUME NEW r \in PromptReqs, RevertChecks(r) PROVE PromptInv'
  BY <1>8, WaitingSteps, WaitKeeps DEF EditorPCs
<1>9. ASSUME NEW r \in PromptReqs, RevertCommits(r) PROVE PromptInv'
  <2>1. editor[r].fix \in Fixes /\ editor[r].was \in Texts /\ editor[r].doc \in Texts /\ editor[r].of \in DOMAIN decisions
    BY <1>0, <1>9, EditorTypes DEF RevertCommits, EditorAt, RecFits
  <2>2. OneRule' /\ decisions' \in Seq(Decisions) /\ Len(decisions') = Len(decisions) + 1
    BY <1>9, <2>1, PublishAdds DEF RevertCommits
  <2>3. prompt' \in Texts /\ versions' \in Seq(Texts) /\ HistoryIsThePrompt'
    BY <1>9, <2>1, HistoryKept DEF RevertCommits
  <2>4. undone' \subseteq DOMAIN decisions' /\ agentName' \in AgentNames
    BY <1>0, <1>9, <2>1, <2>2, PromptTypes DEF RevertCommits
  <2>5. QED
    BY <1>0, <1>9, <2>2, <2>3, <2>4, CommitKeeps DEF RevertCommits
<1>10. ASSUME NEW r \in PromptReqs, RuleFound(r) PROVE PromptInv'
  BY <1>10, WaitingSteps, WaitKeeps DEF EditorPCs
<1>11. ASSUME NEW r \in PromptReqs, RuleReverts(r) PROVE PromptInv'
  <2> DEFINE i == editor[r].of
             d == Decision(editor[r].fix, "reverted", "none", editor[r].was, editor[r].was)
             ds == IF EditorAt(r, "off") THEN Off(decisions, i) ELSE decisions
  <2>1. i \in DOMAIN decisions /\ d \in Decisions /\ d.rule = "none"
    <3>1. editor[r].fix \in Fixes /\ editor[r].was \in Texts /\ i \in DOMAIN decisions
      BY <1>0, <1>11, EditorTypes DEF RuleReverts, EditorAt, RecFits
    <3>2. QED
      BY <3>1, MadeDecision DEF RuleStates
  <2>2. decisions' = Append(ds, d) /\ Ends(r) /\ undone' = undone \cup {i}
        /\ UNCHANGED <<agentName, prompt, versions, asRules, overlapped>>
    BY <1>11 DEF RuleReverts
  <2> HIDE DEF d
  <2>3. /\ ds \in Seq(Decisions) /\ Len(ds) = Len(decisions)
        /\ \A j \in DOMAIN decisions : ds[j].fix = decisions[j].fix /\ (ds[j].rule = "ativa" => decisions[j].rule = "ativa")
    <3>1. CASE EditorAt(r, "off")
      BY <2>1, <3>1, RuleOff
    <3>2. CASE ~EditorAt(r, "off")
      BY <1>0, <3>2
    <3>3. QED
      BY <3>1, <3>2
  <2> HIDE DEF ds
  <2>4. /\ decisions' \in Seq(Decisions) /\ Len(decisions') = Len(decisions) + 1
        /\ DOMAIN decisions' = 1..(Len(decisions) + 1)
        /\ \A j \in DOMAIN decisions : decisions'[j] = ds[j]
        /\ decisions'[Len(decisions) + 1] = d
    BY <2>1, <2>2, <2>3, Adds
  <2>5. \A j \in ActiveRules' : j \in ActiveRules /\ decisions'[j].fix = decisions[j].fix
    BY <1>0, <2>1, <2>3, <2>4 DEF ActiveRules
  <2>6. OneRule'
    BY <2>5, RulesShrink
  <2>7. undone' \subseteq DOMAIN decisions'
    BY <1>0, <2>1, <2>2, <2>4, PromptTypes
  <2>8. agentName' \in AgentNames /\ prompt' \in Texts /\ versions' \in Seq(Texts) /\ HistoryIsThePrompt'
    BY <2>2, PromptTypes DEF PromptInv, HistoryIsThePrompt
  <2>9. QED
    BY <1>0, <2>2, <2>4, <2>6, <2>7, <2>8, CommitKeeps
<1>12. ASSUME NEW r \in PromptReqs, RuleTurnsOff(r) PROVE PromptInv'
  <2> DEFINE i == editor[r].of
  <2>1. i \in DOMAIN decisions
    BY <1>0, <1>12, EditorTypes DEF RuleTurnsOff, EditorAt, RecFits
  <2>2. decisions' = Off(decisions, i) /\ Ends(r)
        /\ UNCHANGED <<agentName, prompt, versions, asRules, undone, overlapped>>
    BY <1>12 DEF RuleTurnsOff
  <2>3. /\ decisions' \in Seq(Decisions) /\ Len(decisions') = Len(decisions) /\ DOMAIN decisions' = DOMAIN decisions
        /\ \A j \in DOMAIN decisions : decisions'[j].fix = decisions[j].fix
                                     /\ (decisions'[j].rule = "ativa" => decisions[j].rule = "ativa")
    BY <2>1, <2>2, RuleOff
  <2>4. OneRule'
    BY <2>3, RulesShrink DEF ActiveRules
  <2>5. undone' \subseteq DOMAIN decisions'
    BY <2>2, <2>3, PromptTypes
  <2>6. agentName' \in AgentNames /\ prompt' \in Texts /\ versions' \in Seq(Texts) /\ HistoryIsThePrompt'
    BY <2>2, PromptTypes DEF PromptInv, HistoryIsThePrompt
  <2>7. QED
    BY <1>0, <2>2, <2>3, <2>4, <2>5, <2>6, CommitKeeps
<1>13. ASSUME NEW r \in PromptReqs, SyncCommits(r) PROVE PromptInv'
  <2>1. editor[r].doc \in Texts /\ editor[r].name \in AgentNames
    BY EditorTypes
  <2>2. prompt' \in Texts /\ versions' \in Seq(Texts) /\ HistoryIsThePrompt'
    <3>1. CASE WritesPrompt(r, editor[r].doc)
      BY <2>1, <3>1, HistoryKept
    <3>2. CASE UNCHANGED <<prompt, versions>>
      BY <3>2, PromptTypes DEF PromptInv, HistoryIsThePrompt
    <3>3. QED
      BY <1>13, <3>1, <3>2 DEF SyncCommits
  <2>3. /\ Ends(r) /\ UNCHANGED <<decisions, asRules, undone, overlapped>> /\ agentName' \in AgentNames
    BY <1>13, <2>1 DEF SyncCommits
  <2>4. OneRule' /\ undone' \subseteq DOMAIN decisions' /\ decisions' \in Seq(Decisions) /\ Len(decisions) <= Len(decisions')
    BY <1>0, <2>3, PromptTypes DEF PromptInv, OneRule, ActiveRules
  <2>5. QED
    BY <2>2, <2>3, <2>4, CommitKeeps
<1>14. ASSUME NEW r \in PromptReqs, EditFails(r) PROVE PromptInv'
  BY <1>14, WaitingSteps, WaitKeeps DEF EditorPCs
<1>15. CASE UNCHANGED <<agentName, prompt, versions, decisions, editor, undone, overlapped>> /\ asRules' \in BOOLEAN
  BY <1>15 DEF PromptInv, PromptTypeOK, EditorsFit, HistoryIsThePrompt, OneRule, ActiveRules
<1>16. CASE SwitchRules
  BY <1>15, <1>16 DEF SwitchRules
<1>17. CASE UNCHANGED promptVars
  BY <1>15, <1>17, PromptTypes DEF promptVars
<1>18. QED
  BY <1>1, <1>2, <1>3, <1>4, <1>5, <1>6, <1>7, <1>8, <1>9, <1>10, <1>11, <1>12, <1>13, <1>14, <1>16, <1>17 DEF PromptNext

(* In every state the types hold, the history ends with the prompt and no  *)
(* scenario has two rules.                                                 *)
THEOREM PromptInvariance == PromptSpec => []PromptInv
<1>1. PromptInit => PromptInv
  BY PromptInitInv
<1>2. PromptInv /\ [PromptNext]_promptVars => PromptInv'
  BY PromptStep
<1>3. QED
  BY <1>1, <1>2, PTL DEF PromptSpec

(* The values of the agent's row, its versions and decisions are of their  *)
(* types, whatever requests do to them at once.                            *)
THEOREM PromptTypeCorrectness == PromptSpec => []PromptTypeOK
<1>1. PromptInv => PromptTypeOK
  BY DEF PromptInv
<1>2. QED
  BY <1>1, PromptInvariance, PTL

(* The trigger's promise: the history ends with the prompt and records     *)
(* every change once, for any number of requests that overwrite each other.*)
THEOREM HistoriesHold == PromptSpec => []HistoryIsThePrompt
<1>1. PromptInv => HistoryIsThePrompt
  BY DEF PromptInv
<1>2. QED
  BY <1>1, PromptInvariance, PTL

(* aplicarRegraDoCenario and its unique index: a scenario has at most one  *)
(* rule in force.                                                          *)
THEOREM RulesAreOne == PromptSpec => []OneRuleAScenario
<1>1. PromptInv => OneRuleAScenario
  <2> SUFFICES ASSUME PromptInv, NEW s \in Scenarios PROVE Cardinality(RulesOf(s)) <= 1
    BY DEF OneRuleAScenario
  <2>1. \A i, j \in RulesOf(s) : i = j
    BY DEF PromptInv, OneRule, RulesOf
  <2>2. CASE RulesOf(s) = {}
    BY <2>2, FS_EmptySet
  <2>3. CASE RulesOf(s) # {}
    <3>1. PICK i \in RulesOf(s) : TRUE
      BY <2>3
    <3>2. RulesOf(s) = {i}
      BY <2>1, <3>1
    <3>3. Cardinality({i}) = 1
      BY FS_Singleton
    <3>4. QED
      BY <3>2, <3>3
  <2>4. QED
    BY <2>2, <2>3
<1>2. QED
  BY <1>1, PromptInvariance, PTL

----------------------------------------------------------------------------
(* What the decisions and the requests know, and what holds besides while  *)
(* requests do not overlap.                                                *)
Corrected(b, f, a) == f \in Fixes /\ ~Contains(b.fixes, f) /\ a = [b EXCEPT !.fixes = Append(@, f)]
IsApplied(d) == d.kind = "applied"
Tells(d) == IsApplied(d) => /\ d.rule = "none" => Corrected(d.before, d.fix, d.after)
                            /\ d.rule # "none" => d.before = d.after
DecisionsTell == \A i \in DOMAIN decisions : Tells(decisions[i])

Undoing(e) ==
    /\ e.pc = "publish" => Corrected(e.was, e.fix, e.doc)
    /\ e.pc \in {"check", "restore"} =>
          /\ IsApplied(decisions[e.of]) /\ e.fix = decisions[e.of].fix
          /\ e.doc = decisions[e.of].before /\ e.was = decisions[e.of].after
    /\ e.pc \in {"unrule", "off", "noted", "list"} => decisions[e.of].rule # "none"
AllUndoing == \A r \in PromptReqs : Undoing(editor[r])

OneEditor == \A q, r \in PromptReqs : ~EditorIdle(q) /\ ~EditorIdle(r) => q = r
Once == \A i, j \in DOMAIN decisions :
    IsApplied(decisions[i]) /\ IsApplied(decisions[j]) /\ decisions[i].fix = decisions[j].fix => i = j
Told == \A i \in DOMAIN decisions :
    IsApplied(decisions[i]) /\ decisions[i].rule = "none" =>
        (i \notin undone <=> Contains(prompt.fixes, decisions[i].fix))
SeesThePrompt(e) ==
    /\ e.pc \in {"publish", "rule", "insert"} => ~Decided(e.fix)
    /\ e.pc \in {"publish", "restore", "rename"} => e.was = prompt
    /\ e.pc = "rename" => e.doc.name = e.name /\ e.doc.fixes = prompt.fixes
AsDecided == prompt.name = agentName /\ Once /\ Told
PromptAlone == ~overlapped => OneEditor /\ AsDecided /\ \A r \in PromptReqs : SeesThePrompt(editor[r])

KnownInv == DecisionsTell /\ AllUndoing /\ PromptAlone

LEMMA RestKnows == Undoing(EditorAtRest) /\ Undoing(EditorAtRest)' /\ SeesThePrompt(EditorAtRest) /\ SeesThePrompt(EditorAtRest)'
<1>1. EditorAtRest.pc = "idle"
  BY AtRest
<1>2. QED
  BY <1>1 DEF Undoing, SeesThePrompt

LEMMA KnownInit == PromptInit => KnownInv
<1> SUFFICES ASSUME PromptInit PROVE KnownInv
  OBVIOUS
<1>1. /\ decisions = <<>> /\ DOMAIN decisions = {} /\ prompt.name = agentName
      /\ \A r \in PromptReqs : editor[r] = EditorAtRest
  BY DEF PromptInit
<1>2. QED
  BY <1>1, RestKnows, AtRest DEF KnownInv, DecisionsTell, AllUndoing, PromptAlone, AsDecided, OneEditor, Once, Told, EditorIdle

(* A request starts, alone or not.                                         *)
LEMMA StartKnows ==
    ASSUME PromptInv, KnownInv, NEW r \in PromptReqs, NEW e \in Editors, Starts(r, e), Undoing(e),
           ~overlapped => SeesThePrompt(e)
    PROVE  KnownInv'
<1>1. /\ editor' = [editor EXCEPT ![r] = e] /\ overlapped' = (overlapped \/ \E q \in PromptReqs : ~EditorIdle(q))
      /\ UNCHANGED <<agentName, prompt, versions, decisions, asRules, undone>>
  BY DEF Starts
<1>2. \A q \in PromptReqs : editor'[q] = IF q = r THEN e ELSE editor[q]
  BY <1>1, PromptTypes
<1>3. DecisionsTell' /\ AllUndoing'
  BY <1>1, <1>2 DEF KnownInv, DecisionsTell, AllUndoing, Tells, Undoing
<1>4. PromptAlone'
  <2> SUFFICES ASSUME ~overlapped' PROVE (OneEditor /\ AsDecided /\ \A q \in PromptReqs : SeesThePrompt(editor[q]))'
    BY DEF PromptAlone
  <2>1. ~overlapped /\ \A q \in PromptReqs : EditorIdle(q)
    BY <1>1
  <2>2. OneEditor'
    BY <1>2, <2>1 DEF OneEditor, EditorIdle
  <2>3. AsDecided'
    BY <1>1, <2>1 DEF KnownInv, PromptAlone, AsDecided, Once, Told
  <2>4. \A q \in PromptReqs : SeesThePrompt(editor'[q])
    BY <1>2, <2>1 DEF SeesThePrompt, KnownInv, PromptAlone
  <2>5. QED
    BY <1>1, <2>2, <2>3, <2>4 DEF SeesThePrompt, Decided
<1>5. QED
  BY <1>3, <1>4 DEF KnownInv

(* A request goes on to where it knows as much, or ends.                   *)
LEMMA WaitKnows ==
    ASSUME PromptInv, KnownInv, NEW r \in PromptReqs, NEW e \in Editors, ~EditorIdle(r),
           editor' = [editor EXCEPT ![r] = e],
           UNCHANGED <<agentName, prompt, versions, decisions, asRules, undone, overlapped>>,
           Undoing(e), ~overlapped => SeesThePrompt(e)
    PROVE  KnownInv'
<1>1. \A q \in PromptReqs : editor'[q] = IF q = r THEN e ELSE editor[q]
  BY PromptTypes
<1>2. DecisionsTell' /\ AllUndoing'
  BY <1>1 DEF KnownInv, DecisionsTell, AllUndoing, Tells, Undoing
<1>3. PromptAlone'
  <2> SUFFICES ASSUME ~overlapped PROVE (OneEditor /\ AsDecided /\ \A q \in PromptReqs : SeesThePrompt(editor[q]))'
    BY DEF PromptAlone
  <2>1. OneEditor'
    BY <1>1 DEF OneEditor, EditorIdle, KnownInv, PromptAlone
  <2>2. AsDecided'
    BY DEF KnownInv, PromptAlone, AsDecided, Once, Told
  <2>3. \A q \in PromptReqs : SeesThePrompt(editor'[q])
    BY <1>1 DEF KnownInv, PromptAlone
  <2>4. QED
    BY <2>1, <2>2, <2>3 DEF SeesThePrompt, Decided
<1>4. QED
  BY <1>2, <1>3 DEF KnownInv

(* A request commits and ends: the decisions it finds stay as they are,    *)
(* but for the state of a rule.                                            *)
Alike(ds) == \A j \in DOMAIN decisions :
    /\ j \in DOMAIN ds /\ ds[j].fix = decisions[j].fix /\ ds[j].kind = decisions[j].kind
    /\ ds[j].before = decisions[j].before /\ ds[j].after = decisions[j].after
    /\ (ds[j].rule = "none") <=> (decisions[j].rule = "none")

LEMMA CommitKnows ==
    ASSUME PromptInv, KnownInv, NEW r \in PromptReqs, ~EditorIdle(r), Ends(r), overlapped' = overlapped,
           Alike(decisions'), \A i \in DOMAIN decisions' : i \in DOMAIN decisions \/ Tells(decisions'[i]),
           ~overlapped => AsDecided'
    PROVE  KnownInv'
<1>1. \A q \in PromptReqs : editor'[q] = IF q = r THEN EditorAtRest ELSE editor[q]
  BY PromptTypes DEF Ends
<1>2. DecisionsTell'
  <2> SUFFICES ASSUME NEW i \in DOMAIN decisions', i \in DOMAIN decisions PROVE Tells(decisions'[i])
    BY DEF DecisionsTell, Tells, IsApplied
  <2>1. Tells(decisions[i])
    BY DEF KnownInv, DecisionsTell
  <2>2. QED
    BY <2>1 DEF Alike, Tells, IsApplied, Corrected
<1>3. AllUndoing'
  <2> SUFFICES ASSUME NEW q \in PromptReqs PROVE Undoing(editor[q])'
    BY DEF AllUndoing
  <2>1. CASE q = r
    BY <1>1, <2>1, RestKnows DEF Undoing
  <2>2. CASE q # r
    <3>1. Undoing(editor[q]) /\ editor'[q] = editor[q]
      BY <1>1, <2>2 DEF KnownInv, AllUndoing
    <3>2. editor[q].pc \in {"check", "restore", "unrule", "off", "noted", "list"} => editor[q].of \in DOMAIN decisions
      BY PromptTypes DEF RecFits
    <3>3. QED
      BY <3>1, <3>2 DEF Undoing, Alike, IsApplied
  <2>3. QED
    BY <2>1, <2>2
<1>4. PromptAlone'
  <2> SUFFICES ASSUME ~overlapped PROVE (OneEditor /\ AsDecided /\ \A q \in PromptReqs : SeesThePrompt(editor[q]))'
    BY DEF PromptAlone
  <2>1. \A q \in PromptReqs : editor'[q].pc = "idle"
    BY <1>1, AtRest DEF KnownInv, PromptAlone, OneEditor, EditorIdle
  <2>2. QED
    BY <2>1 DEF OneEditor, SeesThePrompt, EditorIdle
<1>5. QED
  BY <1>2, <1>3, <1>4 DEF KnownInv

LEMMA CorrectedText ==
    ASSUME NEW b \in Texts, NEW f, NEW a, Corrected(b, f, a)
    PROVE  /\ a.name = b.name /\ ~Contains(b.fixes, f) /\ Contains(a.fixes, f)
           /\ \A g : g # f => (Contains(a.fixes, g) <=> Contains(b.fixes, g))
<1>1. b.fixes \in Seq(Fixes) /\ f \in Fixes /\ a.name = b.name /\ a.fixes = Append(b.fixes, f) /\ ~Contains(b.fixes, f)
  BY DEF Corrected, Texts
<1>2. \A g : Contains(Append(b.fixes, f), g) <=> Contains(b.fixes, g) \/ g = f
  BY <1>1, ContainsGrown
<1>3. QED
  BY <1>1, <1>2

LEMMA DecisionTypes ==
    ASSUME PromptInv, NEW i \in DOMAIN decisions
    PROVE  decisions[i].before \in Texts /\ decisions[i].after \in Texts /\ decisions[i].fix \in Fixes
  BY PromptTypes DEF Decisions

(* A correction has one decision that applied it.                          *)
LEMMA OnceKept ==
    ASSUME PromptInv, Once, Alike(decisions'), DOMAIN decisions' \subseteq 1..(Len(decisions) + 1),
           Len(decisions) + 1 \in DOMAIN decisions' /\ IsApplied(decisions'[Len(decisions) + 1])
               => ~Decided(decisions'[Len(decisions) + 1].fix)
    PROVE  Once'
<1> DEFINE n == Len(decisions)
<1>1. n \in Nat /\ DOMAIN decisions = 1..n
  BY PromptTypes
<1>2. \A i \in DOMAIN decisions' : i \in DOMAIN decisions \/ i = n + 1
  BY <1>1
<1> SUFFICES ASSUME NEW i \in DOMAIN decisions', NEW j \in DOMAIN decisions', IsApplied(decisions'[i]),
                    IsApplied(decisions'[j]), decisions'[i].fix = decisions'[j].fix
             PROVE  i = j
  BY DEF Once, IsApplied
<1>3. CASE i \in DOMAIN decisions /\ j \in DOMAIN decisions
  BY <1>3 DEF Once, Alike, IsApplied
<1>4. CASE i = n + 1 /\ j \in DOMAIN decisions
  BY <1>4 DEF Alike, IsApplied, Decided
<1>5. CASE j = n + 1 /\ i \in DOMAIN decisions
  BY <1>5 DEF Alike, IsApplied, Decided
<1>6. QED
  BY <1>2, <1>3, <1>4, <1>5

LEMMA EndKnows ==
    ASSUME PromptInv, KnownInv, NEW r \in PromptReqs, ~EditorIdle(r), Waits(r, "idle")
    PROVE  KnownInv'
<1>1. editor' = [editor EXCEPT ![r] = EditorAtRest] /\ UNCHANGED <<agentName, prompt, versions, decisions, asRules, undone, overlapped>>
  BY DEF Waits, Goes
<1>2. QED
  BY <1>1, AtRest, RestKnows, WaitKnows

LEMMA ApplyCommitKnows ==
    ASSUME PromptInv, KnownInv, NEW r \in PromptReqs, ApplyCommits(r)
    PROVE  KnownInv'
<1> DEFINE e == editor[r]
           n == Len(decisions)
           d == Decision(e.fix, "applied", "none", e.was, e.doc)
<1>1. e.pc = "publish" /\ e.fix \in Fixes /\ e.was \in Texts /\ e.doc \in Texts /\ ~EditorIdle(r) /\ n \in Nat
      /\ DOMAIN decisions = 1..n
  BY EditorTypes, PromptTypes DEF ApplyCommits, EditorAt, EditorIdle, RecFits
<1>2. d \in Decisions /\ d.fix = e.fix /\ d.kind = "applied" /\ d.rule = "none" /\ d.before = e.was /\ d.after = e.doc
  BY <1>1, MadeDecision DEF RuleStates
<1>3. /\ decisions' = Append(decisions, d) /\ Ends(r) /\ UNCHANGED <<agentName, asRules, undone, overlapped>>
      /\ prompt' = e.doc
  BY DEF ApplyCommits, WritesPrompt
<1>4. Corrected(e.was, e.fix, e.doc)
  BY <1>1 DEF KnownInv, AllUndoing, Undoing
<1> HIDE DEF d
<1>5. /\ DOMAIN decisions' = 1..(n + 1) /\ \A i \in DOMAIN decisions : decisions'[i] = decisions[i]
      /\ decisions'[n + 1] = d
  BY <1>2, <1>3, DecisionAdded
<1>6. Alike(decisions') /\ \A i \in DOMAIN decisions' : i \in DOMAIN decisions \/ i = n + 1
  BY <1>1, <1>5 DEF Alike
<1>7. Tells(decisions'[n + 1])
  BY <1>2, <1>4, <1>5 DEF Tells
<1>8. ASSUME ~overlapped PROVE AsDecided'
  <2>1. e.was = prompt /\ ~Decided(e.fix) /\ AsDecided
    BY <1>1, <1>8 DEF KnownInv, PromptAlone, SeesThePrompt
  <2>2. /\ e.doc.name = prompt.name /\ Contains(e.doc.fixes, e.fix)
        /\ \A g : g # e.fix => (Contains(e.doc.fixes, g) <=> Contains(prompt.fixes, g))
    BY <1>1, <1>4, <2>1, CorrectedText
  <2>3. Once'
    BY <1>2, <1>5, <1>6, <2>1, OnceKept DEF AsDecided
  <2>4. Told'
    <3> SUFFICES ASSUME NEW i \in DOMAIN decisions', IsApplied(decisions'[i]), decisions'[i].rule = "none"
                 PROVE  i \notin undone' <=> Contains(prompt'.fixes, decisions'[i].fix)
      BY DEF Told, IsApplied
    <3>1. CASE i \in DOMAIN decisions
      <4>1. decisions'[i] = decisions[i] /\ decisions[i].fix # e.fix
        BY <1>5, <2>1, <3>1 DEF Decided, IsApplied
      <4>2. QED
        BY <1>3, <2>1, <2>2, <3>1, <4>1 DEF AsDecided, Told
    <3>2. CASE i = n + 1
      <4>1. i \notin undone
        BY <1>1, <3>2, PromptTypes
      <4>2. QED
        BY <1>2, <1>3, <1>5, <2>2, <3>2, <4>1
    <3>3. QED
      BY <1>6, <3>1, <3>2
  <2>5. QED
    BY <1>3, <2>1, <2>2, <2>3, <2>4 DEF AsDecided
<1>9. QED
  BY <1>1, <1>3, <1>6, <1>7, <1>8, CommitKnows

LEMMA RevertCommitKnows ==
    ASSUME PromptInv, KnownInv, NEW r \in PromptReqs, RevertCommits(r)
    PROVE  KnownInv'
<1> DEFINE e == editor[r]
           k == e.of
           n == Len(decisions)
           d == Decision(e.fix, "reverted", "none", e.was, e.doc)
<1>1. e.pc = "restore" /\ e.fix \in Fixes /\ e.was \in Texts /\ e.doc \in Texts /\ ~EditorIdle(r) /\ n \in Nat
      /\ DOMAIN decisions = 1..n /\ k \in DOMAIN decisions
  BY EditorTypes, PromptTypes DEF RevertCommits, EditorAt, EditorIdle, RecFits
<1>2. d \in Decisions /\ d.kind = "reverted" /\ d.rule = "none"
  BY <1>1, MadeDecision DEF RuleStates
<1>3. /\ decisions' = Append(decisions, d) /\ Ends(r) /\ UNCHANGED <<agentName, asRules, overlapped>>
      /\ prompt' = e.doc /\ undone' = undone \cup {k}
  BY DEF RevertCommits, WritesPrompt
<1>4. /\ IsApplied(decisions[k]) /\ e.fix = decisions[k].fix
      /\ e.doc = decisions[k].before /\ e.was = decisions[k].after /\ Tells(decisions[k])
  BY <1>1 DEF KnownInv, AllUndoing, Undoing, DecisionsTell
<1> HIDE DEF d
<1>5. /\ DOMAIN decisions' = 1..(n + 1) /\ \A i \in DOMAIN decisions : decisions'[i] = decisions[i]
      /\ decisions'[n + 1] = d
  BY <1>2, <1>3, DecisionAdded
<1>6. Alike(decisions') /\ \A i \in DOMAIN decisions' : i \in DOMAIN decisions \/ i = n + 1
  BY <1>1, <1>5 DEF Alike
<1>7. ~IsApplied(decisions'[n + 1]) /\ Tells(decisions'[n + 1])
  BY <1>2, <1>5 DEF Tells, IsApplied
<1>8. ASSUME ~overlapped PROVE AsDecided'
  <2>1. e.was = prompt /\ AsDecided
    BY <1>1, <1>8 DEF KnownInv, PromptAlone, SeesThePrompt
  <2>2. /\ e.doc.name = prompt.name
        /\ decisions[k].rule = "none" => ~Contains(e.doc.fixes, e.fix)
        /\ \A g : g # e.fix => (Contains(e.doc.fixes, g) <=> Contains(prompt.fixes, g))
    <3>1. CASE decisions[k].rule = "none"
      <4>1. Corrected(e.doc, e.fix, prompt)
        BY <1>4, <2>1, <3>1 DEF Tells
      <4>2. /\ prompt.name = e.doc.name /\ ~Contains(e.doc.fixes, e.fix)
            /\ \A g : g # e.fix => (Contains(prompt.fixes, g) <=> Contains(e.doc.fixes, g))
        <5> HIDE DEF e
        <5>1. QED
          BY <1>1, <4>1, CorrectedText
      <4>3. QED
        BY <4>2
    <3>2. CASE decisions[k].rule # "none"
      BY <1>4, <2>1, <3>2 DEF Tells
    <3>3. QED
      BY <3>1, <3>2
  <2>3. Once'
    BY <1>5, <1>6, <1>7, <2>1, OnceKept DEF AsDecided
  <2>4. Told'
    <3> SUFFICES ASSUME NEW i \in DOMAIN decisions', IsApplied(decisions'[i]), decisions'[i].rule = "none"
                 PROVE  i \notin undone' <=> Contains(prompt'.fixes, decisions'[i].fix)
      BY DEF Told, IsApplied
    <3>1. i \in DOMAIN decisions /\ decisions'[i] = decisions[i]
      BY <1>5, <1>6, <1>7
    <3>2. CASE i = k
      BY <1>3, <1>4, <2>2, <3>1, <3>2
    <3>3. CASE i # k
      <4>1. decisions[i].fix # e.fix
        BY <1>1, <1>4, <2>1, <3>1, <3>3 DEF AsDecided, Once
      <4>2. QED
        BY <1>3, <2>1, <2>2, <3>1, <3>3, <4>1 DEF AsDecided, Told
    <3>4. QED
      BY <3>2, <3>3
  <2>5. QED
    BY <1>3, <2>1, <2>2, <2>3, <2>4 DEF AsDecided
<1>9. QED
  BY <1>1, <1>3, <1>6, <1>7, <1>8, CommitKnows

(* Steps that change rules only: what the prompt has and what is told of   *)
(* it stay.                                                                *)
LEMMA RulesTold ==
    ASSUME PromptInv, KnownInv, ~overlapped, Alike(decisions'), UNCHANGED <<agentName, prompt>>,
           DOMAIN decisions' \subseteq 1..(Len(decisions) + 1),
           Len(decisions) + 1 \in DOMAIN decisions' =>
               /\ IsApplied(decisions'[Len(decisions) + 1]) => ~Decided(decisions'[Len(decisions) + 1].fix)
               /\ ~(IsApplied(decisions'[Len(decisions) + 1]) /\ decisions'[Len(decisions) + 1].rule = "none"),
           \A i \in DOMAIN decisions : decisions[i].rule = "none" => (i \in undone' <=> i \in undone)
    PROVE  AsDecided'
<1>1. AsDecided /\ Len(decisions) \in Nat /\ DOMAIN decisions = 1..Len(decisions)
  BY PromptTypes DEF KnownInv, PromptAlone
<1>2. Once'
  BY <1>1, OnceKept DEF AsDecided
<1>3. Told'
  <2> SUFFICES ASSUME NEW i \in DOMAIN decisions', IsApplied(decisions'[i]), decisions'[i].rule = "none"
               PROVE  i \notin undone' <=> Contains(prompt'.fixes, decisions'[i].fix)
    BY DEF Told, IsApplied
  <2>1. i \in DOMAIN decisions
    BY <1>1
  <2>2. IsApplied(decisions[i]) /\ decisions[i].rule = "none" /\ decisions'[i].fix = decisions[i].fix
    BY <2>1 DEF Alike, IsApplied
  <2>3. QED
    BY <1>1, <2>1, <2>2 DEF AsDecided, Told
<1>4. QED
  BY <1>1, <1>2, <1>3 DEF AsDecided

LEMMA RuleCommitKnows ==
    ASSUME PromptInv, KnownInv, NEW r \in PromptReqs, RuleCommits(r)
    PROVE  KnownInv'
<1> DEFINE e == editor[r]
           n == Len(decisions)
           d == Decision(e.fix, "applied", "ativa", e.doc, e.doc)
<1>1. e.pc = "insert" /\ e.fix \in Fixes /\ e.doc \in Texts /\ ~EditorIdle(r) /\ n \in Nat /\ DOMAIN decisions = 1..n
  BY EditorTypes, PromptTypes DEF RuleCommits, EditorAt, EditorIdle, RecFits
<1>2. PICK ds \in Seq(Decisions) :
              /\ Len(ds) = n
              /\ \A j \in DOMAIN decisions :
                    /\ ds[j].fix = decisions[j].fix /\ ds[j].kind = decisions[j].kind
                    /\ ds[j].before = decisions[j].before /\ ds[j].after = decisions[j].after
                    /\ ds[j].rule = IF j = e.of /\ decisions[j].rule = "ativa" THEN "substituida" ELSE decisions[j].rule
              /\ decisions' = Append(ds, d)
  BY <1>1, InsertsTo DEF RuleCommits
<1>3. Ends(r) /\ UNCHANGED <<agentName, prompt, versions, asRules, undone, overlapped>>
  BY DEF RuleCommits
<1>4. d \in Decisions /\ d.fix = e.fix /\ d.kind = "applied" /\ d.rule = "ativa" /\ d.before = d.after
  BY <1>1, MadeDecision DEF RuleStates
<1> HIDE DEF d, n, e
<1>5. /\ DOMAIN decisions' = 1..(n + 1) /\ \A i \in DOMAIN decisions : decisions'[i] = ds[i]
      /\ decisions'[n + 1] = d
  BY <1>2, <1>4, Adds DEF n
<1>6. Alike(decisions') /\ \A i \in DOMAIN decisions' : i \in DOMAIN decisions \/ i = n + 1
  BY <1>1, <1>2, <1>5 DEF Alike
<1>7. Tells(decisions'[n + 1]) /\ decisions'[n + 1].rule # "none" /\ decisions'[n + 1].fix = e.fix
  BY <1>4, <1>5 DEF Tells
<1>8. ~overlapped => AsDecided'
  <2> SUFFICES ASSUME ~overlapped PROVE AsDecided'
    OBVIOUS
  <2>1. ~Decided(e.fix)
    BY <1>1 DEF KnownInv, PromptAlone, SeesThePrompt, e
  <2>2. QED
    BY <1>3, <1>5, <1>6, <1>7, <2>1, RulesTold DEF n
<1>9. QED
  BY <1>1, <1>3, <1>6, <1>7, <1>8, CommitKnows

LEMMA RuleRevertKnows ==
    ASSUME PromptInv, KnownInv, NEW r \in PromptReqs, RuleReverts(r)
    PROVE  KnownInv'
<1> DEFINE e == editor[r]
           k == e.of
           n == Len(decisions)
           d == Decision(e.fix, "reverted", "none", e.was, e.was)
           ds == IF EditorAt(r, "off") THEN Off(decisions, k) ELSE decisions
<1>1. e.pc \in {"off", "noted"} /\ e.fix \in Fixes /\ e.was \in Texts /\ ~EditorIdle(r) /\ n \in Nat
      /\ DOMAIN decisions = 1..n /\ k \in DOMAIN decisions
  BY EditorTypes, PromptTypes DEF RuleReverts, EditorAt, EditorIdle, RecFits
<1>2. d \in Decisions /\ d.kind = "reverted"
  BY <1>1, MadeDecision DEF RuleStates
<1>3. /\ decisions' = Append(ds, d) /\ Ends(r) /\ undone' = undone \cup {k}
      /\ UNCHANGED <<agentName, prompt, versions, asRules, overlapped>>
  BY DEF RuleReverts
<1>4. decisions[k].rule # "none"
  BY <1>1 DEF KnownInv, AllUndoing, Undoing
<1>5. Alike(ds) /\ ds \in Seq(Decisions) /\ Len(ds) = n
  <2>1. CASE EditorAt(r, "off")
    BY <1>1, <1>4, <2>1, RuleOff DEF Alike
  <2>2. CASE ~EditorAt(r, "off")
    BY <2>2, PromptTypes DEF Alike
  <2>3. QED
    BY <2>1, <2>2
<1> HIDE DEF d, ds, n
<1>6. /\ DOMAIN decisions' = 1..(n + 1) /\ \A i \in DOMAIN decisions : decisions'[i] = ds[i]
      /\ decisions'[n + 1] = d
  BY <1>2, <1>3, <1>5, Adds DEF n
<1>7. Alike(decisions') /\ \A i \in DOMAIN decisions' : i \in DOMAIN decisions \/ i = n + 1
  BY <1>1, <1>5, <1>6 DEF Alike
<1>8. ~IsApplied(decisions'[n + 1]) /\ Tells(decisions'[n + 1])
  BY <1>2, <1>6 DEF Tells, IsApplied
<1>9. ~overlapped => AsDecided'
  BY <1>3, <1>4, <1>6, <1>7, <1>8, RulesTold DEF n
<1>10. QED
  BY <1>1, <1>3, <1>7, <1>8, <1>9, CommitKnows

LEMMA RuleOffKnows ==
    ASSUME PromptInv, KnownInv, NEW r \in PromptReqs, RuleTurnsOff(r)
    PROVE  KnownInv'
<1> DEFINE k == editor[r].of
<1>1. editor[r].pc = "list" /\ ~EditorIdle(r) /\ DOMAIN decisions = 1..Len(decisions) /\ k \in DOMAIN decisions
      /\ Len(decisions) \in Nat
  BY EditorTypes, PromptTypes DEF RuleTurnsOff, EditorAt, EditorIdle, RecFits
<1>2. /\ decisions' = Off(decisions, k) /\ Ends(r)
      /\ UNCHANGED <<agentName, prompt, versions, asRules, undone, overlapped>>
  BY DEF RuleTurnsOff
<1>3. decisions[k].rule # "none"
  BY <1>1 DEF KnownInv, AllUndoing, Undoing
<1>4. Alike(decisions') /\ DOMAIN decisions' = DOMAIN decisions
  BY <1>1, <1>2, <1>3, RuleOff DEF Alike
<1>5. Len(decisions) + 1 \notin DOMAIN decisions' /\ DOMAIN decisions' \subseteq 1..(Len(decisions) + 1)
  BY <1>1, <1>4
<1>6. ~overlapped => AsDecided'
  BY <1>2, <1>4, <1>5, RulesTold
<1>7. QED
  BY <1>1, <1>2, <1>4, <1>6, CommitKnows

LEMMA SyncCommitKnows ==
    ASSUME PromptInv, KnownInv, NEW r \in PromptReqs, SyncCommits(r)
    PROVE  KnownInv'
<1> DEFINE e == editor[r]
<1>1. /\ e.pc = "rename" /\ ~EditorIdle(r) /\ agentName' = e.name /\ Ends(r)
      /\ UNCHANGED <<decisions, asRules, undone, overlapped>>
      /\ prompt' = IF e.doc # e.was THEN e.doc ELSE prompt
  BY DEF SyncCommits, WritesPrompt, EditorAt, EditorIdle
<1>2. Alike(decisions')
  BY <1>1 DEF Alike
<1>3. ASSUME ~overlapped PROVE AsDecided'
  <2>1. e.was = prompt /\ e.doc.name = e.name /\ e.doc.fixes = prompt.fixes /\ AsDecided
    BY <1>1, <1>3 DEF KnownInv, PromptAlone, SeesThePrompt
  <2>2. prompt'.name = e.name /\ prompt'.fixes = prompt.fixes
    BY <1>1, <2>1
  <2>3. QED
    BY <1>1, <2>1, <2>2 DEF AsDecided, Once, Told
<1>4. QED
  BY <1>1, <1>2, <1>3, CommitKnows

LEMMA KnownStep == PromptInv /\ KnownInv /\ [PromptNext]_promptVars => KnownInv'
<1> SUFFICES ASSUME PromptInv, KnownInv, [PromptNext]_promptVars PROVE KnownInv'
  OBVIOUS
<1>1. ASSUME NEW r \in PromptReqs, NEW f \in Fixes, NEW admin \in BOOLEAN, ApplyReads(r, f, admin) PROVE KnownInv'
  <2>1. PICK e \in Editors : Starts(r, e) /\ RecFits(e) /\ Applying(e, f)
    BY <1>1, ApplyReadsTo
  <2>2. Undoing(e)
    BY <2>1 DEF Undoing, Applying, Corrected
  <2>3. SeesThePrompt(e)
    BY <2>1 DEF SeesThePrompt, Applying
  <2>4. QED
    BY <2>1, <2>2, <2>3, StartKnows
<1>2. ASSUME NEW r \in PromptReqs, NEW i \in DOMAIN decisions, NEW admin \in BOOLEAN, RevertReads(r, i, admin)
      PROVE  KnownInv'
  <2>1. PICK e \in Editors :
              /\ Starts(r, e) /\ RecFits(e) /\ e.of = i /\ e.fix = decisions[i].fix
              /\ decisions[i].kind = "applied" /\ e.doc = decisions[i].before /\ e.was = decisions[i].after
              /\ \/ e.pc = "unrule" /\ decisions[i].rule = "ativa"
                 \/ e.pc = "check"
    BY <1>2, RevertReadsTo
  <2>2. Undoing(e) /\ SeesThePrompt(e)
    BY <2>1 DEF Undoing, SeesThePrompt, IsApplied
  <2>3. QED
    BY <2>1, <2>2, StartKnows
<1>3. ASSUME NEW r \in PromptReqs, NEW i \in DOMAIN decisions, RuleFinds(r, i) PROVE KnownInv'
  <2>1. PICK e \in Editors : Starts(r, e) /\ RecFits(e) /\ e.of = i /\ e.pc = "list" /\ decisions[i].rule = "ativa"
    BY <1>3, RuleFindsTo
  <2>2. Undoing(e) /\ SeesThePrompt(e)
    BY <2>1 DEF Undoing, SeesThePrompt
  <2>3. QED
    BY <2>1, <2>2, StartKnows
<1>4. ASSUME NEW r \in PromptReqs, NEW n \in AgentNames, SyncReads(r, n) PROVE KnownInv'
  <2>1. PICK e \in Editors :
              /\ Starts(r, e) /\ RecFits(e) /\ e.of = 0 /\ e.pc = "rename"
              /\ e.name = n /\ e.was = prompt /\ e.doc = renameAgentInPrompt(prompt, agentName, n)
    BY <1>4, SyncReadsTo
  <2>2. Undoing(e)
    BY <2>1 DEF Undoing
  <2>3. ASSUME ~overlapped PROVE SeesThePrompt(e)
    <3>1. prompt.name = agentName /\ prompt \in Texts /\ agentName \in AgentNames
      BY <2>3, PromptTypes DEF KnownInv, PromptAlone, AsDecided
    <3>2. e.doc.name = n /\ e.doc.fixes = prompt.fixes
      BY <2>1, <3>1, RenameTo
    <3>3. QED
      BY <2>1, <3>2 DEF SeesThePrompt
  <2>4. QED
    BY <2>1, <2>2, <2>3, StartKnows
<1>5. ASSUME NEW r \in PromptReqs, ApplyCommits(r) PROVE KnownInv'
  BY <1>5, ApplyCommitKnows
<1>6. ASSUME NEW r \in PromptReqs, RuleReads(r) PROVE KnownInv'
  <2>1. editor[r].pc = "rule" /\ ~EditorIdle(r) /\ editor[r] \in Editors /\ editor \in [PromptReqs -> Editors]
    BY <1>6, RuleReadsTo, PromptTypes DEF EditorIdle
  <2>2. CASE Waits(r, "idle")
    BY <2>1, <2>2, EndKnows
  <2>3. ASSUME NEW i \in {0} \cup ActiveRules,
               editor' = [editor EXCEPT ![r].pc = "insert", ![r].of = i],
               UNCHANGED <<agentName, prompt, versions, decisions, asRules, undone, overlapped>>
        PROVE  KnownInv'
    <3> DEFINE e == [editor[r] EXCEPT !.pc = "insert", !.of = i]
    <3>1. i \in Nat
      BY PromptTypes DEF ActiveRules
    <3>2. e \in Editors /\ e.pc = "insert" /\ e.fix = editor[r].fix
      BY <2>1, <3>1 DEF Editors
    <3>3. editor' = [editor EXCEPT ![r] = e]
      BY <2>1, <2>3
    <3> HIDE DEF e
    <3>4. Undoing(e)
      BY <3>2 DEF Undoing
    <3>5. ~overlapped => SeesThePrompt(e)
      BY <2>1, <3>2 DEF SeesThePrompt, KnownInv, PromptAlone
    <3>6. QED
      BY <2>1, <2>3, <3>2, <3>3, <3>4, <3>5, WaitKnows
  <2>4. QED
    BY <1>6, <2>2, <2>3, RuleReadsTo
<1>7. ASSUME NEW r \in PromptReqs, RuleCommits(r) PROVE KnownInv'
  BY <1>7, RuleCommitKnows
<1>8. ASSUME NEW r \in PromptReqs, NEW where \in {"restore", "off", "noted"}, Waits(r, where),
             \/ editor[r].pc = "check" /\ where = "restore" /\ prompt = editor[r].was
             \/ editor[r].pc = "unrule" /\ where \in {"off", "noted"}
      PROVE  KnownInv'
  <2> DEFINE e == [editor[r] EXCEPT !.pc = where]
  <2>1. /\ e \in Editors /\ e.pc = where /\ e.of = editor[r].of /\ e.fix = editor[r].fix
        /\ e.doc = editor[r].doc /\ e.was = editor[r].was
    BY GoesOn DEF EditorPCs
  <2>2. /\ editor' = [editor EXCEPT ![r] = e] /\ ~EditorIdle(r)
        /\ UNCHANGED <<agentName, prompt, versions, decisions, asRules, undone, overlapped>>
    BY <1>8 DEF Waits, Goes, EditorIdle
  <2> HIDE DEF e
  <2>3. Undoing(e)
    BY <1>8, <2>1 DEF Undoing, KnownInv, AllUndoing
  <2>4. SeesThePrompt(e)
    BY <1>8, <2>1 DEF SeesThePrompt
  <2>5. QED
    BY <2>1, <2>2, <2>3, <2>4, WaitKnows
<1>9. ASSUME NEW r \in PromptReqs, RevertChecks(r) PROVE KnownInv'
  <2>1. PICK where \in {"restore", "idle"} :
           Waits(r, where) /\ editor[r].pc = "check" /\ (where = "restore" => prompt = editor[r].was)
    BY <1>9, WaitingSteps
  <2>2. CASE where = "idle"
    BY <2>1, <2>2, EndKnows DEF EditorIdle
  <2>3. CASE where = "restore"
    <3>1. Waits(r, "restore") /\ editor[r].pc = "check" /\ prompt = editor[r].was
      BY <2>1, <2>3
    <3>2. QED
      BY <1>8, <3>1
  <2>4. QED
    BY <2>2, <2>3
<1>10. ASSUME NEW r \in PromptReqs, RevertCommits(r) PROVE KnownInv'
  BY <1>10, RevertCommitKnows
<1>11. ASSUME NEW r \in PromptReqs, RuleFound(r) PROVE KnownInv'
  <2>1. PICK where \in {"off", "noted"} : Waits(r, where) /\ editor[r].pc = "unrule"
    BY <1>11, WaitingSteps
  <2>2. QED
    BY <1>8, <2>1
<1>12. ASSUME NEW r \in PromptReqs, RuleReverts(r) PROVE KnownInv'
  BY <1>12, RuleRevertKnows
<1>13. ASSUME NEW r \in PromptReqs, RuleTurnsOff(r) PROVE KnownInv'
  BY <1>13, RuleOffKnows
<1>14. ASSUME NEW r \in PromptReqs, SyncCommits(r) PROVE KnownInv'
  BY <1>14, SyncCommitKnows
<1>15. ASSUME NEW r \in PromptReqs, EditFails(r) PROVE KnownInv'
  <2>1. Waits(r, "idle") /\ ~EditorIdle(r)
    BY <1>15, WaitingSteps DEF EditFails
  <2>2. QED
    BY <2>1, EndKnows
<1>16. CASE UNCHANGED <<agentName, prompt, versions, decisions, editor, undone, overlapped>>
  <2>1. DecisionsTell' /\ AllUndoing'
    BY <1>16 DEF KnownInv, DecisionsTell, AllUndoing, Tells, Undoing, IsApplied
  <2>2. PromptAlone'
    BY <1>16 DEF KnownInv, PromptAlone, OneEditor, AsDecided, Once, Told, SeesThePrompt, Decided, EditorIdle, IsApplied
  <2>3. QED
    BY <2>1, <2>2 DEF KnownInv
<1>17. SwitchRules \/ UNCHANGED promptVars => KnownInv'
  BY <1>16 DEF SwitchRules, promptVars
<1>18. QED
  BY <1>1, <1>2, <1>3, <1>4, <1>5, <1>6, <1>7, <1>9, <1>10, <1>11, <1>12, <1>13, <1>14, <1>15, <1>17 DEF PromptNext

(* While requests do not overlap, the prompt introduces the agent by its   *)
(* name and has exactly the corrections applied and not reverted: the      *)
(* promise of apply-fix, revert and syncAgentIdentity together.            *)
THEOREM PromptsAreAsDecided == PromptSpec => []PromptIsAsDecidedAlone
<1>1. PromptInit => KnownInv
  BY KnownInit
<1>2. PromptInv /\ KnownInv /\ [PromptNext]_promptVars => KnownInv'
  BY KnownStep
<1>3. PromptInv /\ KnownInv => PromptIsAsDecidedAlone
  <2> SUFFICES ASSUME PromptInv, KnownInv, ~overlapped
               PROVE  /\ prompt.name = agentName
                      /\ \A i \in DOMAIN decisions :
                            decisions[i].kind = "applied" /\ decisions[i].rule = "none" =>
                                (i \notin undone) = Contains(prompt.fixes, decisions[i].fix)
    BY DEF PromptIsAsDecidedAlone
  <2>1. prompt.name = agentName /\ Told
    BY DEF KnownInv, PromptAlone, AsDecided
  <2>2. ASSUME NEW i \in DOMAIN decisions, decisions[i].kind = "applied", decisions[i].rule = "none"
        PROVE  (i \notin undone) = Contains(prompt.fixes, decisions[i].fix)
    <3>1. i \notin undone <=> Contains(prompt.fixes, decisions[i].fix)
      BY <2>1, <2>2 DEF Told, IsApplied
    <3>2. QED
      BY <3>1 DEF Contains
  <2>3. QED
    BY <2>1, <2>2
<1>4. QED
  BY <1>1, <1>2, <1>3, PromptInvariance, PTL DEF PromptSpec
=============================================================================
