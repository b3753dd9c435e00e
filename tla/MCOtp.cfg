\* Two requests in flight for two mobiles: some overlap on a mobile, some do not.
SPECIFICATION Spec
CONSTANTS
    None = None
    Mobiles = {m1, m2}
    Codes = {c1, c2}
    Reqs = {r1, r2}
    MAX_ATTEMPTS = 2
    OTP_EXPIRE = 1
    MaxOtps = 2
    MaxTime = 2
SYMMETRY Symmetry
INVARIANT TypeOK
INVARIANT OneActiveUnlessOverlap
INVARIANT BudgetUnlessOverlap
PROPERTY UsedIsFinal
PROPERTY AcceptsLatestOnce
PROPERTY ImplementsOneTimeCode
