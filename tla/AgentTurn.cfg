SPECIFICATION FairSpec
CONSTANTS
    Paths <- Files
    Parent <- ParentOf
    Skills = {"s"}
    AllowedTools <- Reader
    Manifests <- Employees
    MaxBatch = 2
    Budgets <- Sessions
CHECK_DEADLOCK FALSE
INVARIANTS ManifestIsObeyed CallsStayWithinLimit OneEndPerCall
PROPERTIES EffectIsCurrent LeaseIsTheUsers CancelEndsTurn
