CONSTANTS
    Messages <- MCMessages
    MaxLine = 3
    MaxLines = 3
SPECIFICATION McpSpec
INVARIANTS OneReplyPerLine
PROPERTIES EveryRequestAnswered
