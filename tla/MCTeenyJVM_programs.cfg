CONSTANTS
    Methods <- MCMethods
    ConstPool <- MCConstPool
    Entries <- JVMEntries
    W <- MCW
    MaxDepth <- MCMaxDepth

SPECIFICATION Spec

 
INVARIANT OutputCorrect
INVARIANT ArrayLengthStable
INVARIANT ArithMatchesJava

PROPERTY ReturnsWhenJavaDoes
