\* Every short text after each keyword, and the statements as they are written.
SPECIFICATION Spec
CONSTANTS
    NULL = NULL
    Texts <- MCTexts
    Leftovers <- MCLeftovers
    Names = {"a"}
    Lists <- WordLists
    Conditions <- Equalities
INVARIANTS
    ParsedAsWritten
    ReadsBehindUnclosedOnly
PROPERTIES
    ReturnsUnlessParenthesis
