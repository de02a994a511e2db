SPECIFICATION OfferSpec
CONSTANTS
    Mids <- MCMids
    NoMid = "none"
    Stray = "stray"
INVARIANTS
    OfferTypeOK
    CandidatesAfterSuccess
    LocalOfferKept
    CheckedIsDescribed
PROPERTY OfferSettled
CHECK_DEADLOCK FALSE
