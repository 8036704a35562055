\* The manager flushes the connection it still holds after the timeout.
CONSTANTS
    Chunks <- MCChunks
    Printable <- MCPrintable
    Modes <- MCModes
    InSize = 12
    MaxLines = 1
    Errors = {FALSE, TRUE}
    Timeout = 1
    MaxSteps = 3
    MaxNotices = 2
    Replies <- MCReplies
    Notice <- MCNotice
    CutNotice <- MCCutNotice
    PromptText <- MCPrompt
    ColorOfType <- MCColorOfType
    Width = 8
    ChunkSize = 4
    MaxEscape = 4
    CodeLen = 3
    NumCTypes = 16
SPECIFICATION Spec
INVARIANT FreedOnce
\* The manager lets go of the connection and nothing is left to do.
CHECK_DEADLOCK FALSE
