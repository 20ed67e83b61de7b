--------------------------- MODULE PromptVersions ---------------------------
(***************************************************************************)
(* The prompt of an agent and what rewrites it: corrections that are       *)
(* applied and reverted, the customer renaming the agent, and corrections  *)
(* kept as rules beside the prompt when the organisation's switch is on.   *)
(*                                                                         *)
(* Requests read without a lock and write in a transaction (READ           *)
(* COMMITTED) later.  A transaction shows nothing before it commits and    *)
(* writers of one row wait for each other, so its writes are one step; the *)
(* reads it decides on are steps of their own.                             *)
(*                                                                         *)
(* A text is the name it introduces and the corrections in it, in order;   *)
(* equal hashes are equal texts.                                           *)
(***************************************************************************)
EXTENDS Naturals, SequencesExt

CONSTANTS
    Fixes,                    \* corrections suggested by an evaluation
    Scenarios, ScenarioOf,    \* correction -> the scenario it is for
    NoFix,
    AgentNames,
    PromptReqs,
    TETO_DE_REGRAS_ATIVAS,
    MaxDecisions,             \* bound on decisions before a new request
    MaxVersions               \* bound on versions before a renaming

ASSUME PromptAssumption ==
    /\ ScenarioOf \in [Fixes -> Scenarios] /\ NoFix \notin Fixes /\ AgentNames # {}
    /\ TETO_DE_REGRAS_ATIVAS \in Nat /\ MaxDecisions \in Nat /\ MaxVersions \in Nat

VARIABLES
    agentName, prompt,        \* the agent's row
    versions,                 \* the history the trigger writes
    decisions,                \* by id: what was decided, and the rule it created
    asRules,                  \* regrasComoRegistros of the organisation
    editor,                   \* request -> where it is and what it has read
    undone,                   \* history: decisions that are recorded as reverted
    overlapped                \* history: two requests were under way at once

promptVars == <<agentName, prompt, versions, decisions, asRules, editor, undone, overlapped>>

Texts == [name : AgentNames, fixes : Seq(Fixes)]
RuleStates == {"none", "ativa", "substituida", "revertida"}

Blank == [name |-> CHOOSE n \in AgentNames : TRUE, fixes |-> <<>>]

\* doc is the text it will write, was the one it has read or expects.
EditorAtRest == [pc |-> "idle", of |-> 0, fix |-> NoFix, name |-> Blank.name, doc |-> Blank, was |-> Blank]

PromptInit ==
    /\ \E n \in AgentNames : agentName = n /\ prompt = [name |-> n, fixes |-> <<>>]
    /\ versions = <<prompt>>
    /\ decisions = <<>>
    /\ asRules \in BOOLEAN
    /\ editor = [r \in PromptReqs |-> EditorAtRest]
    /\ undone = {} /\ overlapped = FALSE

EditorIdle(r) == editor[r].pc = "idle"
EditorAt(r, where) == editor[r].pc = where
Starts(r, rec) ==
    /\ EditorIdle(r)
    /\ editor' = [editor EXCEPT ![r] = rec]
    /\ overlapped' = (overlapped \/ \E q \in PromptReqs : ~EditorIdle(q))
    /\ UNCHANGED <<agentName, prompt, versions, decisions, asRules, undone>>
Goes(r, where) ==
    /\ editor' = [editor EXCEPT ![r] = IF where = "idle" THEN EditorAtRest ELSE [@ EXCEPT !.pc = where]]
    /\ UNCHANGED <<agentName, prompt, versions, decisions, asRules, undone, overlapped>>
Ends(r) == editor' = [editor EXCEPT ![r] = EditorAtRest]

Decision(f, kind, rule, before, after) ==
    [fix |-> f, kind |-> kind, rule |-> rule, before |-> before, after |-> after]
Decided(f) == \E i \in DOMAIN decisions : decisions[i].fix = f /\ decisions[i].kind = "applied"

----------------------------------------------------------------------------
(* publishPrompt.                                                          *)

\* Mutant: the trigger compares with the text the request started from.
WritesPromptOverWhatItRead(r, t) ==
    /\ prompt' = t
    /\ versions' = IF t = editor[r].was THEN versions ELSE Append(versions, t)

\* The update and its trigger: a text that differs from the row's becomes a version.
WritesPrompt(r, t) ==
    /\ prompt' = t
    /\ versions' = IF t = prompt THEN versions ELSE Append(versions, t)

\* Mutant: the hash is not compared.
AnyText(t) == TRUE

\* hashAtual = hashDaEpoca, in the route and again in the transaction.
Unchanged(t) == t = prompt

----------------------------------------------------------------------------
(* apply-fix.                                                              *)

\* The run's agent, an earlier decision, the switch (the superadmin's door ignores it).
\* DuplicatePatch refuses a text that has the correction.
ApplyReads(r, f, admin) ==
    /\ Len(decisions) < MaxDecisions /\ ~Decided(f)
    /\ \/ /\ asRules /\ ~admin
          /\ Starts(r, [EditorAtRest EXCEPT !.pc = "rule", !.fix = f, !.doc = prompt])
       \/ /\ ~asRules \/ admin
          /\ ~Contains(prompt.fixes, f)
          /\ Starts(r, [EditorAtRest EXCEPT !.pc = "publish", !.fix = f,
                        !.doc = [prompt EXCEPT !.fixes = Append(@, f)], !.was = prompt])

\* No expectedHash: the text made from what was read is written.
ApplyCommits(r) ==
    /\ EditorAt(r, "publish")
    /\ decisions' = Append(decisions, Decision(editor[r].fix, "applied", "none", editor[r].was, editor[r].doc))
    /\ WritesPrompt(r, editor[r].doc)
    /\ Ends(r)
    /\ UNCHANGED <<agentName, asRules, undone, overlapped>>

----------------------------------------------------------------------------
(* aplicarRegraDoCenario.                                                  *)

ActiveRules == {i \in DOMAIN decisions : decisions[i].rule = "ativa"}
RulesOf(s) == {i \in ActiveRules : ScenarioOf[decisions[i].fix] = s}

\* The transaction counts, finds the rule it replaces (of, 0 for none), or is refused.
RuleReads(r) ==
    LET mine == RulesOf(ScenarioOf[editor[r].fix]) IN
    /\ EditorAt(r, "rule")
    /\ \/ /\ Cardinality(ActiveRules) < TETO_DE_REGRAS_ATIVAS \/ mine # {}
          /\ \E i \in IF mine = {} THEN {0} ELSE mine :
                editor' = [editor EXCEPT ![r].pc = "insert", ![r].of = i]
          /\ UNCHANGED <<agentName, prompt, versions, decisions, asRules, undone, overlapped>>
       \/ /\ Cardinality(ActiveRules) >= TETO_DE_REGRAS_ATIVAS /\ mine = {}
          /\ Goes(r, "idle")

\* The rule it found goes, if it is still in force; the new one comes.
InsertsRule(r) ==
    LET me == editor[r]
        kept == IF me.of # 0 /\ decisions[me.of].rule = "ativa"
                THEN [decisions EXCEPT ![me.of].rule = "substituida"]
                ELSE decisions
    IN decisions' = Append(kept, Decision(me.fix, "applied", "ativa", me.doc, me.doc))

\* Mutant: no unique index.
RuleCommitsUnindexed(r) ==
    /\ EditorAt(r, "insert")
    /\ InsertsRule(r)
    /\ Ends(r)
    /\ UNCHANGED <<agentName, prompt, versions, asRules, undone, overlapped>>

\* The index agent_rules_ativa_por_cenario_key lets one in; the other transaction fails.
RuleCommits(r) ==
    /\ EditorAt(r, "insert")
    /\ RulesOf(ScenarioOf[editor[r].fix]) \subseteq {editor[r].of}
    /\ InsertsRule(r)
    /\ Ends(r)
    /\ UNCHANGED <<agentName, prompt, versions, asRules, undone, overlapped>>

----------------------------------------------------------------------------
(* revert of a decision, revert of a rule.                                 *)

\* The customer's door looks for a rule first; the superadmin's knows no rules.
RevertReads(r, i, admin) ==
    LET d == decisions[i]
        back == [EditorAtRest EXCEPT !.pc = "check", !.of = i, !.fix = d.fix, !.doc = d.before, !.was = d.after]
    IN
    /\ d.kind = "applied" /\ Len(decisions) < MaxDecisions
    /\ \/ /\ d.rule = "ativa" /\ ~admin
          /\ Starts(r, [back EXCEPT !.pc = "unrule"])
       \/ /\ d.rule = "none" \/ admin
          /\ Unchanged(d.after)
          /\ Starts(r, back)

\* expectedHash, read inside the transaction; PromptChangedError answers 409.
RevertChecks(r) ==
    /\ EditorAt(r, "check")
    /\ Goes(r, IF Unchanged(editor[r].was) THEN "restore" ELSE "idle")

RevertCommits(r) ==
    /\ EditorAt(r, "restore")
    /\ decisions' = Append(decisions, Decision(editor[r].fix, "reverted", "none", editor[r].was, editor[r].doc))
    /\ undone' = undone \cup {editor[r].of}
    /\ WritesPrompt(r, editor[r].doc)
    /\ Ends(r)
    /\ UNCHANGED <<agentName, asRules, overlapped>>

\* reverterRegra reads the rule as active, or leaves it; the decision is written all the same.
RuleFound(r) ==
    /\ EditorAt(r, "unrule")
    /\ Goes(r, IF decisions[editor[r].of].rule = "ativa" THEN "off" ELSE "noted")

Off(ds, i) == [ds EXCEPT ![i].rule = "revertida"]

\* The update is by id, whatever the status has become.
RuleReverts(r) ==
    /\ EditorAt(r, "off") \/ EditorAt(r, "noted")
    /\ decisions' = Append(IF EditorAt(r, "off") THEN Off(decisions, editor[r].of) ELSE decisions,
                           Decision(editor[r].fix, "reverted", "none", editor[r].was, editor[r].was))
    /\ undone' = undone \cup {editor[r].of}
    /\ Ends(r)
    /\ UNCHANGED <<agentName, prompt, versions, asRules, overlapped>>

\* POST /rules/:ruleId/revert: no decision.
RuleFinds(r, i) ==
    /\ decisions[i].rule = "ativa"
    /\ Starts(r, [EditorAtRest EXCEPT !.pc = "list", !.of = i])
RuleTurnsOff(r) ==
    /\ EditorAt(r, "list")
    /\ decisions' = Off(decisions, editor[r].of)
    /\ Ends(r)
    /\ UNCHANGED <<agentName, prompt, versions, asRules, undone, overlapped>>

----------------------------------------------------------------------------
(* syncAgentIdentity.                                                      *)

renameAgentInPrompt(t, old, new) == IF t.name = old THEN [t EXCEPT !.name = new] ELSE t

SyncReads(r, n) ==
    /\ Len(versions) < MaxVersions /\ n # agentName
    /\ Starts(r, [EditorAtRest EXCEPT !.pc = "rename", !.name = n, !.was = prompt,
                  !.doc = renameAgentInPrompt(prompt, agentName, n)])

\* Name and prompt in one transaction; a prompt that does not introduce the old name stays.
SyncCommits(r) ==
    LET me == editor[r] IN
    /\ EditorAt(r, "rename")
    /\ agentName' = me.name
    /\ IF me.doc # me.was THEN WritesPrompt(r, me.doc) ELSE UNCHANGED <<prompt, versions>>
    /\ Ends(r)
    /\ UNCHANGED <<decisions, asRules, undone, overlapped>>

----------------------------------------------------------------------------
\* A statement of the transaction fails: nothing of it stays.
EditFails(r) == ~EditorIdle(r) /\ Goes(r, "idle")

SwitchRules ==
    /\ asRules' = ~asRules
    /\ UNCHANGED <<agentName, prompt, versions, decisions, editor, undone, overlapped>>

PromptNext ==
    \/ \E r \in PromptReqs :
          \/ \E f \in Fixes, admin \in BOOLEAN : ApplyReads(r, f, admin)
          \/ \E i \in DOMAIN decisions, admin \in BOOLEAN : RevertReads(r, i, admin)
          \/ \E i \in DOMAIN decisions : RuleFinds(r, i)
          \/ \E n \in AgentNames : SyncReads(r, n)
          \/ ApplyCommits(r) \/ RuleReads(r) \/ RuleCommits(r) \/ RevertChecks(r) \/ RevertCommits(r)
          \/ RuleFound(r) \/ RuleReverts(r) \/ RuleTurnsOff(r) \/ SyncCommits(r) \/ EditFails(r)
    \/ SwitchRules

PromptSpec == PromptInit /\ [][PromptNext]_promptVars

----------------------------------------------------------------------------
Decisions == [fix : Fixes, kind : {"applied", "reverted"}, rule : RuleStates, before : Texts, after : Texts]
Editors == [pc : {"idle", "publish", "rule", "insert", "check", "restore", "unrule", "off", "noted", "list", "rename"},
            of : Nat, fix : Fixes \cup {NoFix}, name : AgentNames, doc : Texts, was : Texts]

PromptTypeOK ==
    /\ agentName \in AgentNames /\ prompt \in Texts
    /\ versions \in Seq(Texts)
    /\ decisions \in Seq(Decisions)
    /\ asRules \in BOOLEAN
    /\ editor \in [PromptReqs -> Editors]
    /\ \A r \in PromptReqs : editor[r].of \in 0..Len(decisions)
    /\ undone \subseteq DOMAIN decisions
    /\ overlapped \in BOOLEAN

(***************************************************************************)
(* The history ends with the prompt and records every change once, however *)
(* requests overwrite each other: what a race loses is in a version.       *)
(***************************************************************************)
HistoryIsThePrompt ==
    /\ versions # <<>> /\ Last(versions) = prompt
    /\ \A i \in 1..(Len(versions) - 1) : versions[i] # versions[i + 1]

(***************************************************************************)
(* A scenario has one rule in force, however corrections are applied,      *)
(* replaced and reverted at once: corrections do not pile up.              *)
(***************************************************************************)
OneRuleAScenario == \A s \in Scenarios : Cardinality(RulesOf(s)) <= 1

(***************************************************************************)
(* While requests do not overlap, the prompt introduces the agent by its   *)
(* name and has exactly the corrections that were applied to it and not    *)
(* reverted: a revert takes nothing away that came after it, in whatever   *)
(* order corrections, renamings, rules and reverts follow each other.      *)
(***************************************************************************)
PromptIsAsDecidedAlone ==
    ~overlapped =>
        /\ prompt.name = agentName
        /\ \A i \in DOMAIN decisions :
             decisions[i].kind = "applied" /\ decisions[i].rule = "none" =>
                 (i \notin undone) = Contains(prompt.fixes, decisions[i].fix)

(***************************************************************************)
(* What regraDaDecisao promises (services/agentRulesService.ts:305-309): a *)
(* correction that is reported as reverted is not in force as a rule.      *)
(***************************************************************************)
RevertedRulesAreOff == \A i \in undone : decisions[i].rule # "ativa"
=============================================================================
