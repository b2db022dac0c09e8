SPECIFICATION FairSpec
CONSTANTS
    Paths <- Files
    Parent <- ParentOf
    Skills = {"s"}
    AllowedTools <- Reader
    Manifests <- Employees
    MaxBatch = 2
    Budgets <- Revoking
CHECK_DEADLOCK FALSE
PROPERTIES RevokedAtOnce
