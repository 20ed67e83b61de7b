SPECIFICATION AgentSpec
CONSTANTS
    x1 = x1  x2 = x2  y1 = y1  y2 = y2  z1 = z1  z2 = z2
    p1 = p1
    f1 = f1  f2 = f2  f3 = f3  c1 = c1  c2 = c2
    Vera = Vera  Iza = Iza
    Runs = {z1, z2}
    Regrades = {g1}
    Asks = {x1, x2}
    Machines = {y1, y2}
    NoRun = NoRun
    MaxEvalFaults = 1
    Fixes = {f1, f2, f3}
    NoFix = NoFix
    Scenarios = {c1, c2}
    ScenarioOf <- MCScenarioOf
    AgentNames = {Vera, Iza}
    PromptReqs = {x1, x2}
    TETO_DE_REGRAS_ATIVAS = 1
    MaxDecisions = 2
    MaxVersions = 3
    LLMRequests = {x1, x2, q1}
    Providers = {p1}
    Chains <- MCChains
    FAIL_THRESHOLD = 2
    FAIL_WINDOW = 1
    OPEN_DURATION = 1
    MaxCacheFaults = 1
INVARIANTS
    EvalTypeOK OneOwnerAtWork VerdictsAreAlerted EachExtraRunIsARace
    HistoryIsThePrompt OneRuleAScenario PromptIsAsDecidedAlone
    EveryCountExpires OpenedByFailures
PROPERTY VerdictsAreFinal
SYMMETRY MCAgentSymmetry
CHECK_DEADLOCK FALSE
