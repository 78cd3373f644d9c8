CONSTANTS
    Files <- MCPdfFiles
    Lower <- MCLower
    Number <- MCNumber
    Tokens <- MCTokens
    Regex <- MCRegex
    SmtpUrl = {"smtp://127.0.0.1"}
    Rcpt = {"r1", "r2", "r3"}
SPECIFICATION Spec
INVARIANTS
    PdfMandatoryGiven
