SPECIFICATION Spec
CHECK_DEADLOCK FALSE
CONSTANTS
    NoSession = NoSession
    NoTicket = NoTicket
    s1 = s1
    s2 = s2
    t1 = t1
    t2 = t2
    t3 = t3
    Sessions = {s1, s2}
    Tickets = {t1, t2}
    StepCount = 1
    Options = {}
    DecisionOf <- NoOption
    Outcome <- NoOption
    Target <- NoOption
    Branch <- NoOption
    Templating = {FALSE, TRUE}
    Stops = {"restart"}
SYMMETRY Symmetry
INVARIANT ActiveTicketIsOwn
INVARIANT WrittenThrough
INVARIANT IndexNamesFiles
PROPERTY RestartKeepsFocus
PROPERTY OnlyStalePatchUnconfirms
