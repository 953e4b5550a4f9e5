SPECIFICATION Spec
CHECK_DEADLOCK FALSE
CONSTANTS
    NoSession = NoSession
    NoTicket = NoTicket
    s1 = s1
    s2 = s2
    t1 = t1
    t2 = t2
    t3 = t3
    Sessions = {s1}
    Tickets = {t1, t2}
    StepCount = 4
    Options <- DecisionOptions
    DecisionOf <- DecisionStep
    Outcome <- OptionOutcome
    Target <- OptionTarget
    Branch <- OptionBranch
    Templating = {FALSE}
    Stops = {"restart"}
INVARIANT TypeOK
INVARIANT ChecklistShowsCurrentStep
INVARIANT StepsAheadArePending
PROPERTY AttemptsAreAtThisStep
PROPERTY SystemBlocksOnlyTheThird
