CONSTANTS
    Workers = {w1, w2}
    NEmails = 2
    MAX_ATTEMPTS = 2
    MaxCrashes = 1
SPECIFICATION FairSpec
INVARIANTS
    TypeOK
    AttemptsBounded
    OneDeliveryPerAttempt
PROPERTIES
    SentIsFinal
    ImplementsDelivery
    EveryEmailSettles
