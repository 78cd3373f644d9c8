CONSTANTS
    Name <- MCName
    Lower <- MCLower
    ContentNames <- MCContentNames
    Mails <- WellFormedMails
    StripHeaders <- MCStripHeaders
    OldValue = {"a", "b"}
    NewValue = "new"
    Empty = ""
SPECIFICATION Spec
INVARIANTS
    StrippedFromCopies
