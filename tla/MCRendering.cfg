SPECIFICATION Spec
CONSTANTS
    Items <- MCItems
    Family = {"notification_chat", "notification_custom_text", "notification_custom_html"}
    DefaultLocale = "en"
    Russian = {"ru", "ru-RU"}
    File <- MCFile
    SMTP <- MCSMTP
    Label <- MCLabel
    Link <- MCLink
    Deployed <- MCDeployed
    PublicBase = TRUE
    Events <- MCEvents
INVARIANTS
    ShownAsWritten
    OrderDoesNotMatter
    LayoutIsFilledOnce
    UnsubscribeIsShown
CHECK_DEADLOCK FALSE
