SPECIFICATION Spec
CONSTANTS
    r1 = r1
    r2 = r2
    r3 = r3
    Requests = {r1, r2, r3}
    NoUser = NoUser
    Unset = Unset
    Before = Before
    NoKyc = NoKyc
    NoScore = NoScore
    NoCard = NoCard
    OTP_MAX_ATTEMPTS = 2
    MaxCrashes = 1
    Scores = {69, 70, 90}
    APPROVE_THRESHOLD = 90
    REVIEW_THRESHOLD = 70
SYMMETRY Symmetry
INVARIANTS MissesAreBounded DecidedOnItsData CardAgrees
PROPERTY ChangesStay
CHECK_DEADLOCK FALSE
