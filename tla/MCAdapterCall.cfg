SPECIFICATION Spec
CONSTANTS
    Providers <- MCProviders
    Messages <- MCMessages
    HttpAnswers <- MCHttpAnswers
    SmtpAnswers <- MCSmtpAnswers
INVARIANTS
    SentMeansTaken
    UndeliverableNotTaken
    KeepsContract
PROPERTY
    SendReturns
CHECK_DEADLOCK FALSE
