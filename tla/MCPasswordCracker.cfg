CONSTANTS
    Dictionaries <- MCDictionaries
    Digits <- MCDigits
    Inputs <- MCInputs
    FreshStrings <- ZeroedBuffer
    NUM_THREADS = 2
    NULL = NULL
SPECIFICATION Spec
INVARIANTS
    TypeOK
    FormWordCorrect
    AllInsertionsTried
    CrackedAll
PROPERTIES
    Terminates
