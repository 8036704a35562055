\* An input buffer of four bytes: a line longer than two overflows it.
CONSTANTS
    Chunks <- MCChunks
    Printable <- MCPrintable
    Modes <- MCModes
    InSize = 4
    MaxLines = 2
    Errors = {FALSE, TRUE}
    Timeout = 1
    MaxSteps = 3
    MaxNotices = 2
    Replies <- MCReplies
    Notice <- MCNotice
    CutNotice <- MCCutNotice
    PromptText <- MCPrompt
    ColorOfType <- MCColorOfType
    Width = 8
    ChunkSize = 4
    MaxEscape = 4
    CodeLen = 3
    NumCTypes = 16
SPECIFICATION Spec
INVARIANT ProcessedAsTyped
\* The manager lets go of the connection and nothing is left to do.
CHECK_DEADLOCK FALSE
