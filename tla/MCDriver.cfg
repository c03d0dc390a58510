CONSTANTS
    Args <- EveryArg
    MaxArgs = 3
    Values = {"1", "2"}
    MaxPrints = 2
SPECIFICATION Spec
CHECK_DEADLOCK FALSE
INVARIANTS
    OptionsAsGiven
    FailsBeforeOutput
PROPERTY
    ImplementsTranscript
