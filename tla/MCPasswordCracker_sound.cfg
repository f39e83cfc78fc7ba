CONSTANTS
    Dictionaries <- MCDictionaries
    Digits <- MCDigits
    Inputs <- MCInputs
    FreshStrings <- DirtyBuffer
    NUM_THREADS = 2
    NULL = NULL
SPECIFICATION Spec
INVARIANT
    FormWordSound
