SPECIFICATION ConversationSpec
CONSTANTS
    u1 = u1  u2 = u2  w1 = w1  w2 = w2  v1 = v1  v2 = v2
    A = A  B = B  a1 = a1  a2 = a2  b1 = b1  b2 = b2
    Timers = {m1}
    Answers = {u1}
    Workers = {w1}
    Nothing = Nothing
    Attempts = 2
    MaxVersion = 0
    MaxTimerFaults = 0
    Flows = {A, B}
    FlowNodes = {a1, a2, b1, b2}
    Home <- MCHome
    First <- MCFirst
    Graphs <- MCGraphs
    ByContact = {A}
    ByKeyword = {B}
    NoNode = NoNode
    EndedMark = EndedMark
    NoFlow = NoFlow
    Talks = {u1, u2}
    Alarms = {m2}
    MAX_FLOW_HOPS = 2
    MAX_WALK = 3
    Outs = {}
    Ins = {}
    Callbacks = {}
    NoOut = NoOut
    MaxMishaps = 0
INVARIANT StackOutlivesTimers
CHECK_DEADLOCK FALSE
