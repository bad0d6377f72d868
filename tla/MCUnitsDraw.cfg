SPECIFICATION Spec
CONSTANTS
    None = None
    Units = {u1, u2}
    Staff = {s1}
    Contracts = {c1}
    Apps = {a1}
    Candidates = {d1}
    Draws = {q1, q2}
    Events = {"draw"}
    MaxHolds = 1
INVARIANT OneUnitPerCandidate
CHECK_DEADLOCK FALSE
