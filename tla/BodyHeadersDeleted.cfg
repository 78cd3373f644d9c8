CONSTANTS
    Name <- MCName
    Lower <- MCLower
    ContentNames <- MCContentNames
    Mails <- AnyMails
    StripHeaders <- MCStripHeaders
    OldValue = {"a", "b"}
    NewValue = "new"
    Empty = ""
SPECIFICATION Spec
INVARIANTS
    DeletedAreGone
