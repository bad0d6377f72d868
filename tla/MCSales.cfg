SPECIFICATION SalesSpec
CONSTANTS
    None = None
    Units = {u1, u2}
    Staff = {s1}
    Contracts = {c1, c2}
    Apps = {a1, a2, a3}
    Candidates = {d1}
    Draws = {q1}
    Events = {"menu", "draw", "subscription", "claim"}
    MaxHolds = 1
    Rounds = {1, 2}
    RoundAmount = 2
    w1 = w1
    w3 = w3
    Deposits = {w1, w3}
    Worth <- DepositWorth
    NoRef = NoRef
    LoanRef = LoanRef
    Entered = {2}
    Lent <- LentOrTaken
    Reasons = {because}
    NoReason = NoReason
    NoRound = NoRound
    MaxPayments = 3
    k1 = k1
    Deals = {k1, k2}
    Planned <- OneSplit
    Pool = 3
    Bases = {3}
    Versions = {1, 2}
    Plans = {m1, m2}
    Halves <- SomeHalves
    Runs = {r1, r2}
    MaxHeld = 1
    NoDeal = NoDeal
SYMMETRY Alike
INVARIANT SalesTypesOK
INVARIANT OneContract
INVARIANT OneWinner
INVARIANT BooksAreTrue
INVARIANT PoolKept
INVARIANT PaidWithinSplit
CHECK_DEADLOCK FALSE
