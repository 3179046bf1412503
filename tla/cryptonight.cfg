CONSTANTS
    Archs = {"x86_64", "i386", "armv8", "armv7"}
    MaxHashBlocks = 6
    Nonces = {0, 5}
    Cells <- MCCells
    Iterations <- MCIterations
    AesPerm <- MCAesPerm
    SubWord <- MCSubWord
    RotWord <- MCRotWord
    KeccakOf <- MCKeccakOf
    KeccakPerm <- MCKeccakPerm
    ExtraHash <- MCExtraHash
SPECIFICATION Spec
CHECK_DEADLOCK FALSE
INVARIANTS LanesAgree OnlyWorkingKernels
