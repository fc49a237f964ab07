CONSTANTS
    Local = {"localhost"}
    Far = {"plant"}
    Names = {"one", "two"}
    Levels = {"a", "$s"}
    Reserved = {"$s"}
    Ranges <- MCRanges
    MaxTables = 2
    MaxEdits = 3
SPECIFICATION ConfigSpec
INVARIANTS
    SecondLookAgrees
    CleartextIsWaived
    NeverAGuess
    NeverWidened
CHECK_DEADLOCK FALSE
