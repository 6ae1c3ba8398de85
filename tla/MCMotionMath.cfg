\* Every word of 12 bits, every mounting, every pair of turns.
SPECIFICATION MathSpec
CONSTANTS
    ByteSize = 8
    One = 1024
    HalfTurn = 5
    Numbers <- MCNumbers
INVARIANTS
    TurnsAgree
    MountingUndone
    ShortestWay
    BytesChecked
