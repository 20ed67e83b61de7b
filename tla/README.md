# ZappIQ, modelled and verified

TLA+ models of the parts of ZappIQ where several actors work on one piece of
state: webhook requests, BullMQ workers, cron sweeps, Inbox requests, caches
and the provider's callbacks.  TLC checks each model on a small instance; every
invariant the runs check is also proved with TLAPS, for every value of the
constants.  Every definition is translated from the TypeScript; `PROJECT.json`
maps it to the lines it stands for.

Contents: 1 the system, 2 the modules and the code, 3 the runs, 4 fairness,
5 the proofs, 6 where code and text disagree, 7 what is not modelled,
8 the plan.

## 1. The system

ZappIQ answers the customers of small companies on WhatsApp, Instagram and a
web chat with an AI agent ("Iza"), lets a team take conversations over in an
Inbox, runs scripted flows with timers, and sends marketing campaigns.  The API
(`src/apps/api`) is an Express server; PostgreSQL (through Prisma) holds the
rows, Redis the cache and the BullMQ queues, and the workers run in the API's
process, on as many instances as are deployed.  Almost nothing runs in a
database transaction: a handler reads, waits for something slow, and writes by
id.  That is where its hard behaviour comes from.

| Component | State it keeps | Operations | Hard behaviour | What makes it correct |
|---|---|---|---|---|
| Hand-over between agent and team | `Conversation.status/aiPaused/assignedToId`, cache `ai_paused:*` | agent turn, Inbox requests, expiry job | the turn guards on a row it read seconds before it speaks; the mirror in the cache is fail-soft | the agent answers only what the guard admitted; a pause has a cause; a closed conversation stays closed |
| Flow timers | `FlowTimer` rows, `flow-timer` jobs | create, cancel, claim, fire, chain | retries, stalled jobs on two workers, answer against time-out | one walk per timer; an answer cancels its time-outs; no timer is left behind |
| Campaign dispatch | `Campaign` row, dispatch and send jobs, `Message` rows | sweep, send, publish, pause, dispatch, send | overlapping sweeps, retries from the first line, a call that fails after it was accepted | the scheduler dispatches once; repeats need a fault; nobody is forgotten |
| Message status and funnel | `Message.status`, `whatsappMessageId`, campaign counters | status callbacks, attribution of replies | callbacks repeated, reordered and concurrent; a reset under way | each threshold counts once, the funnel agrees with the rows |
| Inbound webhooks | contact, conversation, message rows | store, enqueue, trial activation | answers 200 before it works; duplicates; failure between store and enqueue | each message is stored and handled once |
| Flow engine and runtime | `flow_state:*` in the cache | walk of a graph, hops with a call stack, effects | two turns on one cursor; bounded hops | a walk ends; the stack returns to its caller |
| Flow versions and editing | `Flow`, `FlowVersion` | snapshot, publish, restore, edit | publish in several writes; edits without a new version | a version is never rewritten; one active flow per trigger |
| LLM router and breakers | `failures` and `open_until` keys of each provider in Redis | cascade, record a failure, open, clear on an answer | a failure is recorded in several calls nobody waits for, while others answer | a breaker opens on failures only; no counter outlives its window |
| Evaluation queue | `AgentEvalRun` rows, jobs, a lock in Redis | ask, run, regrade, ceiling, sweep | a ceiling that stops nothing, orphans that come back, a lock released by a loser | one owner at work; a closed run stays closed and is told of |
| Prompt versions, rules, patches | agent row, `AgentPromptVersion`, fix decisions, rules | apply, revert, rename, rules | decided on what was read, written later | the history follows the prompt; one rule a scenario |
| Billing and trial | `Organization` columns and settings, `StripeWebhookEvent` | Stripe events, confirmation, trial activation and expiry | events late, repeated, lost, overlapping | a pack is credited once, one trial, the stage follows the row |
| Quotas and cost guard | Redis counters, daily rows | count, reconcile, alert | two counters of one thing; alert once | no free use beyond the plan; one alert per threshold |
| Account lifecycle and sessions | users, tokens, revocation keys | log in, refresh, revoke, deactivate | revocation behind a cache | a revoked session ends |
| Data subject requests, retention | request rows, purge | fulfil in steps, purge | failure between steps | what was promised is deleted |
| Audit log | rows with a hash chain | append | concurrent appends read one predecessor | the chain has no fork |
| Cron queue | repeatable jobs | register, run | several instances | one schedule per job |
| Knowledge base and RAG | documents, embeddings (Python service) | ingest, reprocess | partial reprocessing | no document half indexed |
| Web chat | sessions, sockets | message, hand-over | as in the hand-over | as in the hand-over |
| CRM and appointments | deals, tasks, appointments | create, move, book | check, then book | no double booking |
| Mira | `MiraAlvo`, `MiraUsageMonthly`, the trial's setting | search, re-evaluate, archive, land, pack, trial | looks, charges and promotes in three calls, by several at once | the overshoot is bounded; a business is paid for once |
| Channel dispatch | none | calls of the providers | a call that fails after it was accepted | — |
| Web application, packages | none of the server's | user interface, schema, catalogues | — | — |

How they interact.  The webhook stores a message, counts it for the campaign it
may answer, and enqueues an `ai-process` job.  The turn cancels time-outs, walks
a flow, or asks the model; it sends through the channel dispatcher, may create
`flow-timer` jobs and may hand the conversation over.  A fired timer walks the
flow again and may create the next one.  The campaign sweep and the campaign
requests enqueue `campaign-dispatch` jobs, which enqueue `message-send` jobs,
whose messages come back as status callbacks and as replies.  Inbox requests
and the expiry job write the same conversation rows at any moment.

The hazards this has - 40 of them, each at the line where it bites and with the
properties that would catch it - are listed in `PROJECT.json`.  Where the code
does go wrong and nothing says it should not, no property claims otherwise: the
hazard has a note instead.

## 2. The modules and the code

| Module | Models | Runs | Proofs |
|---|---|---|---|
| `Custody` | what the hand-over promises, without caches, workers or requests | refined in `handoff` | `HandoffProofs` |
| `Handoff` | the conversation row, the pause key, the turn, the Inbox, the expiry | `MCHandoff*` | `HandoffProofs` |
| `FlowTimer` | `flowScheduler.ts` and the turns and world around it | `MCConversation*` | `FlowTimerProofs` |
| `FlowRuntime` | the walk through flows: router, engine, hops, calls, the state in the cache | `MCConversation*` | `FlowRuntimeProofs` |
| `CampaignFunnel` | status callbacks, counters, attribution of replies | `MCConversation` | `CampaignFunnelProofs` |
| `Campaign` | sweep, requests, dispatch and send jobs | `MCCampaign*`, `MCOrganization` | `CampaignProofs` |
| `Billing` | Stripe's webhook, the confirmation, the trial, the derived stage | `MCOrganization*` | `OrganizationProofs` |
| `MiraQuota` | searches, re-evaluations and landings on a quota | `MCOrganization` | `OrganizationProofs` |
| `AuditChain` | the hash chain of the audit log | `MCOrganization` | `OrganizationProofs` |
| `EvalQueue` | quality tests: asking, the worker, the lock, ceiling, sweep | `MCAgent` | `EvalQueueProofs` |
| `PromptVersions` | the prompt, its history, fixes, rules and reverts | `MCAgent*` | `AgentProofs` |
| `LLMRouter` | the cascade and the breaker in Redis | `MCAgent` | `AgentProofs` |
| `MCHandoff`, `MCCampaign` | instances of one component | | |
| `MCConversation`, `MCOrganization`, `MCAgent` | instances of components that meet in a conversation, an organisation, an agent | | |

Conventions.  One action is one atomic step of the code: what lies between two
awaits, around the one database, cache or queue operation that matters there.
A variable that ends in `pc` (or the field `pc` of an actor) says which await it
is at.  A failing call is an action of its own, named `...Fails`; where the code swallows the failure
the write may simply not happen.  Definitions that start with "Mutant" are
plausible bugs, used to see that each property can be broken by the code.
Variables marked "history" are not in the code: they record what happened, so
that a property can speak of it, and no guard reads them (`missed` has a bound).
Some of them name the cases in which the code makes no promise (`raced`, `overlapped`, `alone`,
`crossed`); a property that ends in `Alone` is about the other ones.

### Handoff

A turn (`processIncomingMessage`) is an agenda of steps.  `TurnCheckCache` is
the check of the pause key, `TurnGuard` the durable guard
(`shouldSkipForHumanHandoff`), `TurnFlow` and `TurnModel` pick what the rest of
the turn will do.  `EarlyPlans`, `FlowPrefixes` and `ModelPlans` list, in the
order the code runs them, the exits of the turn that speak or write: replies
that fail into the catch-all (`say`), sends whose failure is swallowed
(`softSay`), the two halves of `marcarTransbordo` (`markCache`, `markDb`), the
crisis and compliance net (`net`) and the catch-all (`tempCache`, `tempDb`,
`notice`).  What a message says, and which branch a message takes, is data:
every plan is possible for every message.  `asked` is a history variable: the turns
whose plan asks for a person or raises the net, until they throw or stall.
`TurnStalls` is the death of the worker: the first puts the turn back in the queue,
the second drops it without a notice, as BullMQ does at its default
`maxStalledCount` of 1.

`PostMessage`, `Assign`, `Close`, `ReopenRead/Write` and `ResumeRead/Write` are
the Inbox requests; `Mirror` is `mirrorPauseCache`, which runs after the row was
written and may fail.  `ExpirySelect` and `ExpiryClose` are the 72 hour expiry:
select, then an update that checks the status again and nothing else.  Time is
not a variable: the expiry may select any conversation no turn or request is at
work on, and `CacheLost` covers expiry and eviction of the key.

The webhook is here only as find, create, store and enqueue; two messages of a
new customer may both create a conversation.  The `IZA_AUTOREPLY_TEMPLATE` mode
and the soft deletion of a conversation are left out; the legacy value
`autoreply` of the key is in, because the check deletes it.

### FlowTimer

Turns cancel (`cancelPendingWaitTimers`: find, update by id, remove the jobs)
and schedule (`scheduleFlowTimer`: row, job, job id).  Workers take a job, load
the row, read the world, read the pause key, decide (`Verdict` is
`validateTimerFire` in its order), claim the row (`updateMany` with status
pending) and walk.  `FireFails` is an exception before the walk's own try block,
which BullMQ retries; `Stall` hands a job to a second worker while the first
goes on; `Crash` loses the worker; a second stall of one job fails it for good
(`StalledJob`).  `walks` counts the runs of the effects of a
timer; `answers` holds the messages stored after its row.  One conversation is
modelled: timers of different conversations share nothing.  Of the flow only
its switch and version are state; a walk either stops at a wait or schedule
node, which creates a timer, or it does not.

### Campaign

`cron` sweeps (find, claim by `updateMany`, add), `press` is send or publish
(update, add), `Pause` and `OptOut` are single updates.  A dispatch job reads
the campaign and the audience, zeroes the counters, enqueues in batches and
completes; it restarts from its first line when it throws or stalls.  A send job
creates the conversation and the row, calls the provider (a template first, if
there is one, then text), stores the id and bumps a counter.  A call may fail
before or after the provider took the message; `received` counts what was taken.
One contact stands for a batch.  `sentCount` is a contact's share of the
campaign's counter, so that "more than the provider took" can be said of a
contact.  Editing and deleting a campaign are left out;
the update route cannot change its status.

### CampaignFunnel

`log` is the order of the rows of one conversation (`createdAt`).  A callback
finds the row by the provider's id, compares ranks, updates by id and bumps the
counters it crossed, each in a step of its own.  An answer is attributed in
three: the last campaign message, earlier answers since, the bump.  A campaign
counter is modelled by each message's share of it, so that "counted twice" can
be said of a message.  `raced`, `tangled` and `stale` are history variables: the
messages on which callbacks overlapped, on which rows were created while an
answer was attributed, and which are older than the last reset of the counters.
They only name the cases in which the code makes no promise that it keeps.
The callbacks of one payload are handled in sequence by the code; the model
lets all of them overlap, as callbacks of different payloads do.  The first-touch
origin of the contact and the Meta billing ledger are left out.

### FlowRuntime

A walk is local between its read of `flow_state:*` (`TurnReads`) and its write
(`Stores`), and goes one node (`WalkOn`, `WalkAsk`, ...) or one hop a step.  The
graph is data chosen at the start among `Graphs`, any drawing whose edges stay in
their flow.  `Resolve` is a new call of `resolveFlowStep`, with the message spent;
`HopReturns` skips frames without a node to return to.  `StateAfter` is what the
two writers store: the turn keeps its stack, a timer's result has none.
`owed` lists the calls that have not returned.  Edits of nodes, the A/B split, the
legacy cursor, the empty graph and the Maestro flag are left out.

### Billing

A request (`BillingReqs`) is one call of the webhook or of the confirmation, one
database call a step: `Arrives`, `MarkEvent` (the insert is the lock), `ReadRow`,
`WriteRow` or `CreditPack`, `DeriveStage`, `StoreStage`; `RequestFails` is the
catch around it, which answers 200.  `Sent` is what Stripe may say; as events come
late, twice or never, any snapshot may be the next, so Stripe keeps no state here.
`settings` is a document read in one step and written whole in another.
`ActivateTrial` and `CronCloses` are single updates with their condition in the
WHERE.  `Speaks` tells which event about an add-on counts for the history: the end
of a subscription that a newer one replaced does not.  The mirror in the CRM, the
grace period and the gate's cache are left out.

### MiraQuota

A row is a search and a business, as a search stores a business once.  A search
looks at the quota, skips what is stored, creates the row, and pays
(`ConsumeEntitles`, `ConsumeChecks`, `ConsumeCharges`); a re-evaluation pays for a
row that waits; `Promotes` is an update by id in both.  The quota is that of the
month, or of the trial, for life; a tier is known by its number of Alvos, and the
webhook may raise, lower or remove it inside a month (`TierChanges`).  A consumer
reads the tier and the month before it looks at the ledger (`share`, `key`).  `raced`
holds the businesses two requests were at work on, or whose charge or promotion
threw; `topTier` the largest tier a month has had.  Scores, the quality gate and the
rows in the CRM are data.

### AuditChain

A hash is the sequence number of its row.  A transaction reads the newest row on
its snapshot and commits only if none was inserted since (serializable); otherwise
the event is lost, and nobody tries again.  `Anonymizes` takes a prefix, as
retention does.

### EvalQueue

Requests of the client and the superadmin and cycles of the cron check, create and
enqueue in three steps.  A machine takes a job, wins the lock or goes on without it
(`AcquireFails`), reads, starts, evaluates, writes, alerts, releases.  `HitsCeiling`
closes the row and leaves the evaluation running as an orphan, which comes back
(`OrphanReturns`); `CloseReadFails` is the closing read that fails into null.
`LockLapses` and `Sweep` are the clock.  `races` counts the races that may add a live
run of the client: a request that looks while another is about to create, and a
closed run that is started again.  The lock is taken to
outlive a run that ends in time: its minute of slack covers closing and alerting.

### PromptVersions

A text is the name it introduces and the corrections in it, in order.  A request
reads in one step and commits in another; the writes of a transaction are one step,
the reads it decides on are not.  `ApplyReads/ApplyCommits` is the fix route,
`RuleReads/RuleCommits` the same as a rule (with the unique index),
`Revert...` and `Rule...` the reverts of both routes, `Sync...` the renaming.
The reject route, the remediation script and SQL by hand are left out.

### LLMRouter

One action per call of the cache.  Each failure is recorded beside the request that
goes on (`recorder`): increment, expire, open.  An answer deletes the keys in
parallel.  Time is a clock of ticks.  `unexpiring` holds the providers whose last
expire was lost.  `last_failure_at` and the streaming variant are
left out.

## 3. The runs

| Run | Instance | Checks |
|---|---|---|
| `handoff` | 1 customer, 2 conversations, 2 messages, 1 request, 1 person | `HandoffTypeOK`, `PauseHasACause` and `OnlyPeopleReopen` (of every step), `KeepsCustody` (refinement of `Custody`) |
| `handoff_crash` | 1 conversation, 1 message, 1 request, 2 worker deaths, fairness | `EveryTurnEnds` |
| `conversation` | timers: 1 timer, 2 answers, 2 workers, 2 attempts, 2 faults | `TimerTypeOK`, `AtMostOneWalk`, `AnswersCancelWaits` |
| | walks: 2 flows of 2 nodes in each drawing of `MCGraphs`, 2 turns, 1 alarm, `MAX_FLOW_HOPS` 2, `MAX_WALK` 3 | `RuntimeTypeOK`, `AnswersWhatWasAsked`, `CursorIsInItsFlow`, `CallsReturnInTurns` |
| | funnel: 2 messages, 3 of 2 answers and 2 callbacks, 1 mishap | `FunnelTypeOK`, `FunnelIsExactAlone`, `ReadIsDelivered`, `RepliesAreExactAlone` |
| `timers_settle` | 2 timers (a drip), 1 answer, 1 worker, 1 republication, 1 fault, fairness | `TimersSettle` |
| `organization` | campaign: 1 contact, 2 sweeps, 1 press, 2 dispatch jobs, 2 sends, 2 attempts each, 2 faults | `CampaignTypeOK`, `CronDispatchesOnce`, `RepeatsNeedAFault`, `SentCountIsHonest` |
| | billing: 1 base and 1 add-on subscription, 2 events, 2 requests | `BillingTypeOK`, `PacksCreditedOnce`, `AddonsAreExactAlone`, `StageIsExactAlone`, `NoSecondTrial` |
| | quota: a company and a place, 2 searches, 1 re-evaluation, 1 landing, a trial of 1, tiers of 1 and 2, 2 months, 1 pack, 1 fault | `OvershootIsBounded`, `LeadIsPaidOnceAlone` |
| | audit: 2 requests, 4 rows of which 1 without a hash, `VERIFY_LIMIT` 3 | `ChainVerifies` |
| `campaign_served` | 2 contacts, 1 press, 1 dispatch job, 3 sends, 1 fault, fairness | `EveryContactIsServed` |
| `agent` | tests: 2 runs, 1 regrade, 2 requests, 2 machines, 1 fault | `EvalTypeOK`, `OneOwnerAtWork`, `VerdictsAreAlerted`, `EachExtraRunIsARace`, `VerdictsAreFinal` |
| | prompt: 3 fixes for 2 scenarios, 2 names, 2 requests, 1 active rule allowed, 2 decisions, 3 versions | `HistoryIsThePrompt`, `OneRuleAScenario`, `PromptIsAsDecidedAlone` |
| | models: 1 provider, 3 requests, threshold 2, both durations 1 tick, 1 lost call | `EveryCountExpires`, `OpenedByFailures` |
| `handoff_talks_over`, `campaign_paused`, `billing_return`, `flow_stack`, `rules_still_on` | as small as the trace needs | one property each, violated: section 6 |

Three runs hold several components.  These share no variable and no step, so a
behaviour of all of them is, for each, one of its own with stuttering; a run picks
one (`part`) and leaves the others where they start.  That loses nothing a property
of one component can see, and every property here is about one.

Why these bounds.  Each hazard is a race of two actors or one fault against one
actor, and every instance has both.

- One death of the worker runs a turn again, a second drops it.  `handoff` has none,
  which keeps two messages within reach; `HandoffKeepsCustody` and
  `PausesHaveCauses` hold for any number.
- Two conversations are needed because two messages of a new customer may create
  two, and because a message after a close opens a second one.
- Two workers are the most that can hold one job: BullMQ hands out a stalled job
  while its first holder still runs.  One fault is enough to stall it, to fail a
  write, or to lose a worker; two attempts are needed to retry at all.
- Two flows that call each other, and two hops, are enough for a call from a called
  flow and for a return; the drawings mix each entry of the called flow with each
  node that can end a walk.  `conversation` keeps the flow of the timers on and the
  conversation with the agent; `timers_settle` has both change.
- Two callbacks overlap on one message; two messages let an answer be credited to
  the wrong one; two answers let one hide the other.
- Two sweeps show the race for the claim; a third would only lose it as well.
  Two faults let a send fail and the record of the failure fail after it; the run
  has them with one send job, and one fault with both jobs.
  `DispatchAttempts` and `SendAttempts` are 2 instead of the configured numbers:
  a second retry repeats the first from the same line.
- In `campaign_served` three sends suffice for two contacts and one fault: a
  dispatch that fails after its first contact enqueues both again, and one that
  fails later has already enqueued both.
- Two events reach two requests in every order, once each or both the same.  Once
  requests have overlapped or failed, the run goes on only behind the end of a
  trial: `PacksCreditedOnce` and `NoSecondTrial` are what is left to say then, and
  their theorems have no such bound.
- Three consumers of a quota of one can overshoot it by two.  The run tries two
  businesses, or one and one thing besides: a choice of the client, a pack, a new
  month, a tier given up, a call that throws.
- Two requests fork a chain if any number does; a limit below the number of rows
  makes the verification stop in the middle.
- Two machines make a winner and a loser of the lock; a third request to a breaker
  of threshold two answers while two failures are recorded.
- Three fixes are two of one scenario and one of another; one rule allowed lets the
  ceiling bite.  The invariant `KnownInv` behind the proof was also checked with
  three decisions.

`CHECK_DEADLOCK FALSE` stands where the system may rightly stop, every message,
request, event and callback being dealt with.  The runs of `MCCampaign` contain
actions that are always possible.

## 4. Fairness

Only workers are fair.  `WF` of the steps of each turn (`Handoff`), of each
timer worker (`FlowTimer`), of each dispatch and send job (`Campaign`): BullMQ
keeps handing out waiting jobs, and a function that awaits a call is resumed
when the call returns or throws.  Weak fairness is enough, because an actor at
an await stays enabled until it takes its step; a step another actor could
disable for ever is never assumed to happen.  Nothing obliges a person, a
customer, the clock, a provider, a sweep or a failure to act: no fairness is
assumed of them.  In `FlowTimer` the delay of a job is taken to elapse, which is
what a delayed job is.

`EveryTurnEnds` needs no strong fairness since a turn outlives one death of its
worker only: `maxStalledCount` is left at 1, and a second one ends the turn, dropped.
In `TimersSettle` a job that stalled twice has ended too, like one that used up its
attempts.
`TimersSettle` starts at a job that was added: a row whose `queue.add` failed is
swept by nobody, and the model reaches it.

## 5. The proofs

Every invariant the runs check is a theorem of its component's specification
(`THEOREM ... == Spec => []Inv`), as are the action properties `PauseHasACause`,
`OnlyPeopleReopen` and `VerdictsAreFinal` and the refinement `KeepsCustody`.  A
proof module extends its component (`OrganizationProofs` and `AgentProofs` hold
three and two small ones), strengthens the invariant to an inductive one, and
proves that it holds at the start and that every action preserves it, one step per
action.  The theorems hold for all sets of actors and all bounds, under the
assumptions the modules name.  These are: bounds are naturals (`MIRA_TRIAL_ALVOS`,
the tier's quota, months and durations positive, the breaker's threshold above 1,
as they are configured); names for "nothing" are not values; kinds of actors are
disjoint; `Sender` maps turns to customers, `Home` and `First` nodes and flows to
each other; the edges of a node stay in its flow; and the consumers of a quota and
the requests to a breaker are finite sets, because they are counted.

**Hand-over.** `IInv` adds to `HandoffTypeOK`: `TurnsFiled` (a turn past the webhook
has a conversation that exists, one before it none), `FailedOnlyNotices` (a turn
whose guard threw has only the steps of the catch-all ahead), `RequestsAim` and
`UnaskedAreQuiet` (a turn that asked for nobody has no step ahead that pauses for
good).  `FailedOnlyNotices` is what makes `KeepsCustody` true: the agenda of a turn
in the catch-all holds no step that answers, so every answer is one of a turn the
guard admitted.  `UnaskedAreQuiet` gives `PauseHasACause`: a turn that throws is out
of `asked` and has `ErrorPlan` ahead, whose pause is the temporary one; were it a
durable one, the step that takes it would have no cause.  `HandoffKeepsCustody` proves the
refinement of `Custody`, action by action; most steps of `Handoff` are stutters.
`OnlyPeopleReopenIt` is an action property: of all the steps only those of the
Inbox and the crisis net can take a conversation out of CLOSED.

**Flow timers.** `AtMostOneWalk` is not inductive: two workers may hold one job.
`ClaimIsExclusive` says that a worker past the claim is alone there, that its
timer has not walked and its row is no longer pending, and that a timer that
walked never is pending again; `RowsExist` keeps every reference to a timer on a
row that exists, so that a row, once out of pending, is never created anew.
`AnswersFound` carries `AnswersCancelWaits` over the two awaits of the
cancellation: what was pending when the message was stored is in the set the turn
found, because a row never becomes pending again.

**Walks.** `IInv` says of each walk what its place implies (`Fits`): a walk on a
node is in that node's flow, one that hops or stores has a cursor there, a message
that may still be consumed has not been, a stack holds return nodes beside their
flows (`FramesFit`); and of each timer that its node is in its flow (`TimersFit`).
It holds under all overlaps.  `CallsReturnInTurns` needs `InTurns` besides: while
the walks are orderly one at most moves, and `owed` is listed by the stack it
carries, or by the stored one if none does.  `Lists` says that a stack lists a
sequence by an order-preserving bijection between the sequence and the stack's open
frames; a call extends it by one place, a return cuts it.

**Funnel.** `CallbacksAim` and `UnlinkedCountNothing` tie a callback at work to a
message with an id.  `ReachedIsCounted` gives `ReadIsDelivered` even under races:
whatever shows that a message was delivered - its row, its read count, what a
callback read - comes after a callback that counted it or is about to.
`OneWriter` (without a race, one callback at most is about to write, and what it
read still stands) and `ThresholdsCounted` (each threshold the row crossed was
counted, or exactly one callback is about to) give `FunnelIsExactAlone`.
`RepliesAreExactAlone` has an invariant of its own: `Rows` (each row is in the log
once), `RepliesAim` (what an answer found is a message, and the newest one unless
rows came across) and `RepliesCounted`: of a message without such crossings, either
no answer came before the next message and nothing was counted, or one did and it
was counted once, or it did and exactly one answer is about to count.

**Campaign.** `ClaimIsExclusive`: nobody has claimed a campaign that is SCHEDULED;
the claim takes it out of SCHEDULED and nothing puts it back; so at most one sweep
is between its claim and its add, and none after an add.  `RepeatsNeedAFault`
has an invariant of its own, `Books`: what a contact received, the send jobs on
their way to it and the dispatches that still owe it a copy are together no more
than the dispatches that have begun and the faults.  The three sets are
proved finite along the way, so the theorem holds for infinite sets of jobs too.
`SentCountIsHonest` holds under faults as well: `Honest` says that what is counted
and the send jobs that have delivered and not yet counted are no more than what was
received; a dispatch that starts again sets the count to zero and takes nothing back.

**Billing.** `BillingInv`: a request at work carries an event that was sent
(`HasEvent`); a pack's event is marked before it is credited, and one request at
most is about to credit it (`Packs`); a trial that ran out stays out, and a row
nobody billed has no status and no subscription (`OneTrial`).  `Alone` adds, while
requests neither overlap nor fail: one is at work, what it read is what the row
holds, the add-on is in the account exactly while it lives, and the stage tells the
row or is about to be stored from it.  An attempt at `AddonsAreExactAlone` failed
for two subscriptions of one add-on: the history took the end of the older one for
the end of the add-on, which the code's `removeAddon` rightly ignores.  The history
variable was wrong, and `Speaks` corrects it; the runs with one had not shown it.

**Mira.** `OvershootInv`: for every ledger, what is charged and the consumers about
to charge it are together below its largest quota plus consumers; a consumer joins
them only under the quota it read, when there are fewer others than consumers.
`SharesFit` says that the tier a consumer read is no larger than the largest of its
month: a tier lowered meanwhile leaves a ledger over its new quota, never over that
bound.  `LeadInv`, of each
business no two worked on: one row, one payer, one creator, a counted row no longer
waits, and it was paid for exactly if a row is counted or a consumer is about to.

**Audit chain.** `Links`: hashed rows follow those without, and each points at the
row before it.  `Snapshots`: if the trail still is as long as a transaction saw it,
what it read is the last hash.  Anonymised rows are a prefix of the trail, so of the
rows that are verified each but the oldest has the one before it still there.

**Quality tests.** `OneHand` (a job is in the hand of one machine, and one that won
the lock holds it) gives `OneOwnerAtWork`.  `Alerts` follows a run from the hand of
its machine (`InHand`) to rest (`AtRest`): a run that ended and was not told of is
on its way to be.  `Counted` gives `EachExtraRunIsARace`: the live runs of the client
and the requests about to create one are together no more than one and the races; a
request that looks while nothing is live and nobody is about to create adds one to
none, and every other one is counted as a race.

**Prompt.** `PromptInv` adds to the type that every request has read what its place
needs (`EditorsFit`) and that active rules of one scenario are one (`OneRule`).
`KnownInv` is for `PromptIsAsDecidedAlone`: decisions tell what they did
(`DecisionsTell`), a revert carries the texts of the decision it reverts
(`AllUndoing`), and, while requests do not overlap, the prompt has exactly the
corrections applied and not reverted, and what a request read still is the prompt
(`PromptAlone`).

**Breaker.** `EveryCountExpires` is nearly inductive: a counter loses its time to live
when it is created, by a recording that is about to expire it, or keeps none when
that very call is lost, which `unexpiring` notes.  `BreakerInv` is for
`OpenedByFailures`: of a provider whose answers met no recording, the counter and
the increments under way are no more than the failures since its last answer, an
open mark needs all of them, and while an answer deletes the keys nothing is being
recorded.

Model-checked only: the liveness properties `EveryTurnEnds`, `TimersSettle` and
`EveryContactIsServed`.  Liveness under fairness and `ENABLED` are out of the
prover's reach.  The five properties of section 6 are refuted by TLC.
`PromptTypeOK` and `MiraTypeOK` are proved and in no run, where they would say
little.

## 6. Where code and text disagree

Each is a run that TLC must refute, and a finding in `PROJECT.json` with the
lines.

1. `handoff_talks_over`: a turn past the guard answers after a person took the
   conversation.  Comments promise that the agent does not answer while people do;
   the row is read once, at the start.
2. `campaign_paused`: a paused campaign goes on sending, and ends COMPLETED.  The help
   text says a paused campaign had no more sends.
3. `billing_return`: a customer who cancelled and pays again is confirmed as CHURNED
   and stays locked out; `churnedAt` is written once and never cleared.
4. `flow_stack`: a timer set in a called flow stores a state without a call stack.
   The log line and the design say that it is preserved.
5. `rules_still_on`: the superadmin's revert records a correction as reverted whose
   rule stays in force, the fault another route's comment says was removed.

The models show more than these.  Of each component, what a reader of the code
should know and no run is about:

- Hand-over: `resume-ai` and `reopen` decide on a status read earlier
  (`conversations.ts:333`); two messages of a new customer create two conversations
  (`webhook.ts:212`); the expiry closes a conversation with a new message
  (`conversationExpiryService.ts:62`).
- Timers and flows: a fire looks for the pause in the cache only
  (`flowScheduler.ts:294-300`); a row whose `queue.add` failed is swept by nobody;
  overlapping turns run a node twice; frames survive into a flow the router picks
  anew; a transfer inside a called flow returns to the caller, and the bot goes on.
- Campaigns: concurrent callbacks count a delivery twice (`campaignStatus.util.ts:31`);
  a campaign stays SENDING when its sweep died; a contact who opted out still receives
  it; an early callback is dropped (`queueService.ts:217`).
- Billing: an event is marked before it is processed, and an error answers 200, so the
  event is lost; `settings` and the list of packs are read, changed and written whole;
  a failed payment of an add-on makes the base plan past due; the confirmation leaves
  the gate's cache of 60 s as it was.
- Mira: an Alvo archived or delivered while it is paid for becomes READY again;
  consumers at once charge over a ceiling `reavaliar.ts` calls final; a unit charged
  before a failed promotion is charged again later; `reavaliar.ts` takes the month in
  UTC, the ledger in Sao Paulo; two landings at once make two deals.
- Audit: rows anonymised from the front break the chain for the rest, against
  `auditService.ts:275-276`; a serialization failure loses the event.
- Quality tests: a double click passes both checks; starting a run is an update
  without a condition (`agentEvalQueue.ts:473`), so one the sweep closed runs again.
- Prompt: the fix route and the renaming write over what others wrote; under READ
  COMMITTED the check inside the revert's transaction closes no window; the ceiling of
  active rules is a count before the insert.
- Breaker: the half-open state `redisBreaker.ts:49-51` describes does not exist, as the
  counter expires before the open mark does.

## 7. What is not modelled, and why

- Texts, prompts, retrieval, scores and formatting are data; which branch they lead
  to is a nondeterministic choice.
- Redis and BullMQ are taken at their documented word: a call happens or throws, a
  job is delivered at least once.  The cache may lose any entry at any time.
- Process-wide failure of PostgreSQL is a failing call.
- Asaas and Pix, sessions and deactivation, snapshots and publication of flows are
  left out of the components next to them.
- Components of section 1 without a module are listed as `not_modelled` in
  `PROJECT.json` with the reason.  The web application and the packages hold
  no state of the server; the schema's enumerations are the status sets here.
- Numeric work (similarity search, prices) is out of a model checker's reach.

## 8. The plan

Done: the modules of section 2, in the order hand-over, timers, campaigns, funnel,
then the flow runtime, billing, quality tests, prompt, breaker, audit chain, Mira;
`Custody` as their abstract specification; every invariant proved.

Left, the most important first:

1. `InboundWebhook`: store, enqueue and duplicates, which feeds `Handoff`; an
   at-most-once delivery that it and `FlowTimer` implement.
2. `Quota` (counters in Redis against daily rows, one alert a threshold), and an
   entitlement (paid, trial, none) that `Billing` implements.
3. Sessions, data subject requests, web chat, appointments.

Proofs left: those refinements, and action properties of the modules that have none
yet (a row of a timer never becomes pending again, a counter never falls but by a
reset), which the invariants above already imply step by step.
