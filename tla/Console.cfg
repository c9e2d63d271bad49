\* A screen of two lines of two characters, a buffer that a few keys overflow, and one
\* interrupt without a handler.
SPECIFICATION Spec
CONSTANTS
    Width = 2
    Height = 2
    Word = 256
    Message <- MCMessage
    BufferLength = 4
    MaxLength = 2
    Circumstances <- MCCircumstances
INVARIANTS
    WritesStayOnScreen
    EchoMatches
PROPERTIES
    LineAsMeant
    LinesEnd
\* Users stop pressing keys.
CHECK_DEADLOCK FALSE
