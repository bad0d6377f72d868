SPECIFICATION DeskSpec
CONSTANTS
    None = None
    Units = {u1, u2}
    Staff = {s1, s2}
    Contracts = {c1, c2}
    Apps = {a1, a2, a3}
    Candidates = {d1}
    Draws = {q1}
    Events = {"draw", "subscription", "claim"}
    MaxHolds = 2
SYMMETRY Alike
INVARIANT ContractHoldsUnit
INVARIANT WinnerHoldsUnit
PROPERTY HoldIsKept
CHECK_DEADLOCK FALSE
