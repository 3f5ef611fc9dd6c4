SPECIFICATION Spec
CONSTANTS
    Requests = {r1}
    Challenges = {c1}
    Purposes = {pay}
    Bodies = {b1, b2}
    NoHash = NoHash
    MediaHash = MediaHash
    MaxCalls = 2
INVARIANT UnhashedSpendsNothing
CHECK_DEADLOCK FALSE
