SPECIFICATION Spec
CONSTANTS
    Requests = {r1, r2}
    Challenges = {c1}
    Purposes = {pay, reset}
    Bodies = {b1, b2}
    NoHash = NoHash
    MediaHash = MediaHash
    MaxCalls = 3
CHECK_DEADLOCK FALSE
SYMMETRY Symmetry
INVARIANTS
    WrittenIsNeverMissed
    RefusalTellsSpent
    IInv
PROPERTIES ActsOnce
