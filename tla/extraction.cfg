SPECIFICATION Spec
CONSTANTS
    Absent = Absent
    Letters <- ab
    MaxInt = 10
    ByteOrder <- ASCII
    MapKeys <- Keys
    RuleTexts <- Rules
    Documents <- Anchors
    Values <- AllParts
INVARIANTS
    StartsIfInTheGrammar
    SpelledPathCompiles
    ResultsAreTheNamedNodes
    ExpandsInKeyOrder
PROPERTY SameObjectSameSeries
CHECK_DEADLOCK FALSE
