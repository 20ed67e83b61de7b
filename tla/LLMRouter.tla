------------------------------ MODULE LLMRouter ------------------------------
(***************************************************************************)
(* The cascade of model providers and the circuit breaker each provider    *)
(* has in Redis, shared by the machines: a counter of failures with a      *)
(* window, and an open mark with a duration.                               *)
(*                                                                         *)
(* A failure is recorded in several calls that nobody waits for, while the *)
(* request already tries the next provider; a success deletes the keys in  *)
(* parallel.  Any call of the cache may fail, which is swallowed, and a    *)
(* machine may die with recordings under way.                              *)
(*                                                                         *)
(* Time is a clock of ticks of FAIL_WINDOW / OPEN_DURATION.                *)
(***************************************************************************)
EXTENDS Naturals, Sequences, FiniteSets

CONSTANTS
    LLMRequests,     \* requests that may run at once
    Providers,
    Chains,          \* the cascades buildChain returns
    FAIL_THRESHOLD, FAIL_WINDOW, OPEN_DURATION,
    MaxCacheFaults   \* bound on calls of the cache that fail

ASSUME BreakerAssumption ==
    FAIL_THRESHOLD \in Nat \ {0, 1} /\ FAIL_WINDOW \in Nat \ {0} /\ OPEN_DURATION \in Nat \ {0}
ASSUME RequestsAssumption == IsFiniteSet(LLMRequests)
ASSUME ChainsAssumption == Chains \subseteq Seq(Providers) /\ MaxCacheFaults \in Nat

VARIABLES
    failures,    \* provider -> its counter; the threshold stands for itself and more
    failTtl,     \* provider -> ticks left to the counter, 0 when it has no expiry
    openTtl,     \* provider -> ticks left to the open mark, 0 when it is closed
    llm,         \* request -> where it is, the providers it has left, the keys it has to delete
    recorder,    \* request -> provider -> where the recording of its failure is
    cacheFaults,
    strikes,     \* history: provider -> failures since its last answer
    crossed,     \* history: providers whose answer overlapped the recording of a failure
    unexpiring   \* history: providers whose EXPIRE was lost, until a deletion or another EXPIRE

llmVars == <<failures, failTtl, openTtl, llm, recorder, cacheFaults, strikes, crossed, unexpiring>>
breakerVars == <<failures, failTtl, openTtl>>

Keys == {"failures", "open_until"}
NoRequest == [pc |-> "idle", rest |-> <<>>, keys |-> {}]

LLMInit ==
    /\ failures = [p \in Providers |-> 0]
    /\ failTtl = failures /\ openTtl = failures
    /\ llm = [c \in LLMRequests |-> NoRequest]
    /\ recorder = [c \in LLMRequests |-> [p \in Providers |-> "none"]]
    /\ cacheFaults = 0
    /\ strikes = failures /\ crossed = {} /\ unexpiring = {}

CacheFault == cacheFaults < MaxCacheFaults /\ cacheFaults' = cacheFaults + 1
Least(a, b) == IF a < b THEN a ELSE b

Trying(c) == Head(llm[c].rest)
Recording(p) == \E c \in LLMRequests : recorder[c][p] # "none"
Clearing(p) == \E c \in LLMRequests : llm[c].pc = "clear" /\ Trying(c) = p

----------------------------------------------------------------------------
(* complete: one provider after the other.                                 *)

Completes(c) ==
    /\ llm[c].pc = "idle"
    /\ \A p \in Providers : recorder[c][p] = "none"
    /\ \E chain \in Chains : llm' = [llm EXCEPT ![c] = [NoRequest EXCEPT !.pc = "check", !.rest = chain]]
    /\ UNCHANGED <<breakerVars, recorder, cacheFaults, strikes, crossed, unexpiring>>

\* An open breaker is skipped.
breakerIsOpen(c) ==
    /\ llm[c].pc = "check" /\ llm[c].rest # <<>>
    /\ llm' = [llm EXCEPT ![c] = IF openTtl[Trying(c)] > 0 THEN [@ EXCEPT !.rest = Tail(llm[c].rest)]
                                                           ELSE [@ EXCEPT !.pc = "call"]]
    /\ UNCHANGED <<breakerVars, recorder, cacheFaults, strikes, crossed, unexpiring>>

\* Fail-open: without an answer of the cache the provider is tried.
CheckFails(c) ==
    /\ llm[c].pc = "check" /\ llm[c].rest # <<>>
    /\ llm' = [llm EXCEPT ![c].pc = "call"]
    /\ CacheFault
    /\ UNCHANGED <<breakerVars, recorder, strikes, crossed, unexpiring>>

Exhausted(c) ==
    /\ llm[c].pc = "check" /\ llm[c].rest = <<>>
    /\ llm' = [llm EXCEPT ![c] = NoRequest]
    /\ UNCHANGED <<breakerVars, recorder, cacheFaults, strikes, crossed, unexpiring>>

ProviderAnswers(c) ==
    LET p == Trying(c) IN
    /\ llm[c].pc = "call"
    /\ llm' = [llm EXCEPT ![c].pc = "clear", ![c].keys = Keys]
    /\ strikes' = [strikes EXCEPT ![p] = 0]
    /\ crossed' = IF Recording(p) THEN crossed \cup {p} ELSE crossed
    /\ UNCHANGED <<breakerVars, recorder, cacheFaults, unexpiring>>

\* time-out, 5xx, 429, quota: recordFailure is started, the next provider tried.
ProviderFails(c) ==
    LET p == Trying(c) IN
    /\ llm[c].pc = "call" /\ recorder[c][p] = "none"
    /\ llm' = [llm EXCEPT ![c].pc = "check", ![c].rest = Tail(@)]
    /\ recorder' = [recorder EXCEPT ![c][p] = "incr"]
    /\ strikes' = [strikes EXCEPT ![p] = Least(@ + 1, FAIL_THRESHOLD)]
    /\ crossed' = IF Clearing(p) THEN crossed \cup {p} ELSE crossed
    /\ UNCHANGED <<breakerVars, cacheFaults, unexpiring>>

\* Mutant: an error of the caller counts against the provider.
ProviderRefusesCounted(c) ==
    /\ llm[c].pc = "call" /\ recorder[c][Trying(c)] = "none"
    /\ llm' = [llm EXCEPT ![c] = NoRequest]
    /\ recorder' = [recorder EXCEPT ![c][Trying(c)] = "incr"]
    /\ UNCHANGED <<breakerVars, cacheFaults, strikes, crossed, unexpiring>>

\* An error of the caller ends the request and is not recorded.
ProviderRefuses(c) ==
    /\ llm[c].pc = "call"
    /\ llm' = [llm EXCEPT ![c] = NoRequest]
    /\ UNCHANGED <<breakerVars, recorder, cacheFaults, strikes, crossed, unexpiring>>

\* recordSuccess: the dels run side by side; the answer goes out after the last.
Cleared(c, k) == llm' = [llm EXCEPT ![c] = IF @.keys = {k} THEN NoRequest ELSE [@ EXCEPT !.keys = llm[c].keys \ {k}]]

recordSuccess(c, k) ==
    LET p == Trying(c) IN
    /\ llm[c].pc = "clear" /\ k \in llm[c].keys
    /\ IF k = "failures" THEN /\ failures' = [failures EXCEPT ![p] = 0]
                              /\ failTtl' = [failTtl EXCEPT ![p] = 0]
                              /\ unexpiring' = unexpiring \ {p}
                              /\ UNCHANGED openTtl
                         ELSE /\ openTtl' = [openTtl EXCEPT ![p] = 0]
                              /\ UNCHANGED <<failures, failTtl, unexpiring>>
    /\ Cleared(c, k)
    /\ UNCHANGED <<recorder, cacheFaults, strikes, crossed>>

DelFails(c, k) ==
    /\ llm[c].pc = "clear" /\ k \in llm[c].keys
    /\ Cleared(c, k)
    /\ crossed' = crossed \cup {Trying(c)}
    /\ CacheFault
    /\ UNCHANGED <<breakerVars, recorder, strikes, unexpiring>>

----------------------------------------------------------------------------
(* recordFailure.                                                          *)

Recorded(c, p, there) == recorder' = [recorder EXCEPT ![c][p] = there]

\* Mutant: the window is given when the breaker opens.
IncrExpiringLast(c, p) ==
    LET n == Least(failures[p] + 1, FAIL_THRESHOLD) IN
    /\ recorder[c][p] = "incr"
    /\ failures' = [failures EXCEPT ![p] = n]
    /\ Recorded(c, p, IF n = FAIL_THRESHOLD THEN "open" ELSE "none")
    /\ UNCHANGED <<failTtl, openTtl, llm, cacheFaults, strikes, crossed, unexpiring>>

\* INCR; the first failure gives the counter its window, the third opens.
Incr(c, p) ==
    LET n == Least(failures[p] + 1, FAIL_THRESHOLD) IN
    /\ recorder[c][p] = "incr"
    /\ failures' = [failures EXCEPT ![p] = n]
    /\ Recorded(c, p, IF n = 1 THEN "expire" ELSE IF n = FAIL_THRESHOLD THEN "open" ELSE "none")
    /\ UNCHANGED <<failTtl, openTtl, llm, cacheFaults, strikes, crossed, unexpiring>>

Expire(c, p) ==
    /\ recorder[c][p] = "expire"
    /\ failTtl' = [failTtl EXCEPT ![p] = IF failures[p] > 0 THEN FAIL_WINDOW ELSE @]
    /\ unexpiring' = IF failures[p] > 0 THEN unexpiring \ {p} ELSE unexpiring
    /\ Recorded(c, p, "none")
    /\ UNCHANGED <<failures, openTtl, llm, cacheFaults, strikes, crossed>>

OpenBreaker(c, p) ==
    /\ recorder[c][p] = "open"
    /\ openTtl' = [openTtl EXCEPT ![p] = OPEN_DURATION]
    /\ Recorded(c, p, "none")
    /\ UNCHANGED <<failures, failTtl, llm, cacheFaults, strikes, crossed, unexpiring>>

\* A call of the cache fails, or the machine dies.
RecordingLost(c, p) ==
    /\ recorder[c][p] # "none"
    /\ unexpiring' = IF recorder[c][p] = "expire" THEN unexpiring \cup {p} ELSE unexpiring
    /\ Recorded(c, p, "none")
    /\ CacheFault
    /\ UNCHANGED <<breakerVars, llm, strikes, crossed>>

----------------------------------------------------------------------------
Aged(ttl) == IF ttl = 0 THEN 0 ELSE ttl - 1

\* Redis expires keys.
Tick ==
    /\ failures' = [p \in Providers |-> IF failTtl[p] = 1 THEN 0 ELSE failures[p]]
    /\ failTtl' = [p \in Providers |-> Aged(failTtl[p])]
    /\ openTtl' = [p \in Providers |-> Aged(openTtl[p])]
    /\ UNCHANGED <<llm, recorder, cacheFaults, strikes, crossed, unexpiring>>

LLMNext ==
    \/ \E c \in LLMRequests :
          \/ Completes(c) \/ breakerIsOpen(c) \/ CheckFails(c) \/ Exhausted(c)
          \/ ProviderAnswers(c) \/ ProviderFails(c) \/ ProviderRefuses(c)
          \/ \E k \in Keys : recordSuccess(c, k) \/ DelFails(c, k)
          \/ \E p \in Providers :
                Incr(c, p) \/ Expire(c, p) \/ OpenBreaker(c, p) \/ RecordingLost(c, p)
    \/ Tick

LLMSpec == LLMInit /\ [][LLMNext]_llmVars

----------------------------------------------------------------------------
LLMTypeOK ==
    /\ failures \in [Providers -> 0..FAIL_THRESHOLD]
    /\ failTtl \in [Providers -> 0..FAIL_WINDOW]
    /\ openTtl \in [Providers -> 0..OPEN_DURATION]
    /\ llm \in [LLMRequests -> [pc : {"idle", "check", "call", "clear"}, rest : Seq(Providers), keys : SUBSET Keys]]
    /\ recorder \in [LLMRequests -> [Providers -> {"none", "incr", "expire", "open"}]]
    /\ cacheFaults \in Nat
    /\ strikes \in [Providers -> 0..FAIL_THRESHOLD]
    /\ crossed \subseteq Providers /\ unexpiring \subseteq Providers

(***************************************************************************)
(* No counter of failures is left without an expiry, whatever recordings   *)
(* and deletions interleave and whatever calls fail: one that has none has *)
(* a recording about to give it one, unless that very EXPIRE was lost and  *)
(* nothing deleted the counter since.  Otherwise three failures spread     *)
(* over weeks would open the breaker.                                      *)
(***************************************************************************)
EveryCountExpires ==
    \A p \in Providers \ unexpiring :
        failures[p] > 0 /\ failTtl[p] = 0 => \E c \in LLMRequests : recorder[c][p] = "expire"

(***************************************************************************)
(* A breaker is open only if its provider failed FAIL_THRESHOLD times with *)
(* no answer in between, the errors of callers not counted, unless an      *)
(* answer met a recording under way or its deletions failed.               *)
(***************************************************************************)
OpenedByFailures ==
    \A p \in Providers \ crossed :
        openTtl[p] > 0 /\ ~Clearing(p) => strikes[p] = FAIL_THRESHOLD
=============================================================================
