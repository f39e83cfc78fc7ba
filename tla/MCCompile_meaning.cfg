CONSTANTS
    Sources <- MCSources
    Xs <- MCXs
    MaxSteps <- MCMaxSteps
    MaxIters <- MCMaxIters
SPECIFICATION Spec
INVARIANT
    CompilePreservesMeaning
