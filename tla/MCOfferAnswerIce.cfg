SPECIFICATION OfferSpec
CONSTANTS
    Mids <- MCMids
    NoMid = "none"
    Stray = "stray"
INVARIANT CandidateInItsSection
CHECK_DEADLOCK FALSE
