\* Five graphs and five kinds of sources in fourteen pairs, three elements.
CONSTANTS
    Stage <- MCStages
    Channel <- MCChannels
    Src = "src"
    Element <- MCElement
    Zero = 0
    NoElement = NoElement
    Graphs <- MCGraphs
    Setups <- MCSetups
    Connection = {"r1", "r2"}
    Data <- MCData
    MaxErrors = 1
    Yield <- MCYield
    Traces <- MCTraces
    Span <- MCSpan
SPECIFICATION FairSpec
INVARIANTS
    TypeOK
    PanicsOnlyInSources
    SinksAreComplete
    OnlyOnce
    OrderIsKept
PROPERTIES
    Drains
CHECK_DEADLOCK FALSE
