\* Requests, texts, q at any moment, and messages of others in between.
SPECIFICATION FairSpec
CONSTANTS
    Char = {"g", "q"}
    Request = {"g"}
    Size = 4
    Chunk = 1
    MaxLines = 1
    MaxEvents = 4
INVARIANTS TypeOK ModesAgree SignalIsHidden ScreenComesBack EndIsAhead
PROPERTIES AnswerEnds
CHECK_DEADLOCK FALSE
