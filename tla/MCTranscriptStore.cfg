SPECIFICATION Spec
CONSTANTS
    m1 = m1
    m2 = m2
    m3 = m3
    Messages = {m1, m2, m3}
    MaxVersion = 3
    Stops = {"crash"}
SYMMETRY Symmetry
INVARIANT AcknowledgedMessagesSurvive
INVARIANT AcknowledgedChangesSurvive
PROPERTY RestartBetweenHandlersKeepsAll
PROPERTY ImplementsDurableTranscript
