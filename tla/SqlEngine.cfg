\* Two tables of up to three rows, statements of every kind.
SPECIFICATION EngineSpec
CONSTANTS
    NULL = NULL
    Unset = Unset
    Texts <- MCTexts
    Leftovers = {}
    Names = {}
    Lists = {}
    Conditions = {}
    TooLong = {"long"}
    Equalities <- MCEqualities
    MaxRows = 3
INVARIANTS
    EngineTypeOK
PROPERTIES
    OnlyMatchingRowsChange
    RelationsWhilePlain
    AnsweredUnlessParenthesis
