CONSTANTS
    Regs <- OperandRegs
    Tested <- OperandRegs
    Halves <- Quarters
    Imm16 <- Chunks
    Imm12 <- Unsigned12
    Imm9 <- Signed9
    Imm7 <- Pairs7
    Conds <- CondCodes
    MaxWords = 2
    MaxLabels = 2
SPECIFICATION MCSpec
CHECK_DEADLOCK FALSE
INVARIANT
    BytesMeanTheListing
PROPERTY
    ImplementsEmitter
