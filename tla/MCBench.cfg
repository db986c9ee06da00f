SPECIFICATION FairSpec
CONSTANTS
    Defaults <- MCDefaults
    TypeOf <- MCTypeOf
    BaseConfig <- MCBaseConfig
    Variants <- MCVariants
    Contexts <- VariantContexts
    Workers = {"0", "1"}
    WarmupOps = 1
    MeasuredOps = 3
    Attempts = 3
    Window = 2
    WarmupMessages = 2
    MeasuredMessages = 4
    MaxFaults = 2
    MaxPolls = 2
CHECK_DEADLOCK FALSE
INVARIANTS
    TypeOK
    CountsAddUp
    MeasuresWhatItNames
    CleanHandOver
PROPERTY
    CompareEnds
