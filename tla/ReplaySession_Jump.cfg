SPECIFICATION ReplaySpec
CONSTANTS
    Length = 3
INVARIANTS
    JumpTakesEffect
