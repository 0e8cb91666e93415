SPECIFICATION TurnSpec
CONSTANTS
    Contents <- MCContents
    LinkTargets <- MCLinkTargets
    FileNames <- MCFileNames
    Layout <- MCLayout
    SectionLimits <- MCSectionLimits
    SectionCeiling = 30
    Rules <- MCRules
    Lex <- MCLex
    Inline <- MCInline
    Bound <- MCBound
    CommandField <- MCCommandField
    GuardCalls <- MCGuardCalls
    Bindings <- MCBindings
    MaxInFlight = 1
    Expansions <- MCExpansions
    TailLimit = 3
    MaxOutput = 8
    MaxInt = 120
    Ceiling <- MCCeiling
    MinimumURL = 2
    QueryEnvelope = 2
    EmptyResult = 2
    EmptySource = 3
    LimitChoices <- MCLimitChoices
    Answers <- MCAnswers
    ReduceRequests <- MCReduceRequests
    ReduceOutputs <- MCReduceOutputs
    ReduceLimit <- MCReduceLimit
    MarkerBytes = 2
    BoundaryRules = {2}
    RedactInputs <- MCRedactInputs
    RedactLimit <- MCRedactLimit
INVARIANTS
    SectionIsWhole
    OnlyStandingFilesAreShown
    AbstainMeansNoMatch
    CommandIsUnambiguous
    BudgetsAreGlobal
    TailIsSuffix
    ResultFitsRetention
    ReductionIsFaithful
    RedactionIsExact
CHECK_DEADLOCK FALSE
