SPECIFICATION FairSpec
CONSTANTS
    Streams <- MCStreams
    MaxRecv = 3
    MaxLine = 3
    LongMax = 100
    BufferSize = 2
    UrlTexts <- MCUrlTexts
    PathTexts <- MCPathTexts
    Forms <- MCForms
INVARIANTS
    HttpInv
    AnswersAsExpected
    NothingLostOnTheWay
    UrlsComeBack
    PathsStayInside
    ParamsComeBack
PROPERTIES
    HandlingEnds
