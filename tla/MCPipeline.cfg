SPECIFICATION Spec
CONSTANTS
    NSections = 2
    MaxQA = 2
INVARIANTS
    TypeOK
    VerdictIsOfDelivered
    CodeFollowsPlan
    FirstDraftFollowsReviewedPlan
    GateOutcomeMatchesTrace
    QACountMatchesTrace
    ReceiptDeclaresEveryStage
    ReentryKeepsOutline
    WorkBounded
PROPERTIES
    ReceiptIsFinal
    EventuallyEnds
    TriageNeverFailsTheRun
    ImplementsContract
