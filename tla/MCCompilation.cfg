\* The compiler step by step: sound code verifies, and is what Compiler says.
SPECIFICATION StepsSpec
CONSTANTS
    Images = {}
    Terms <- MCTerms
    Statements <- MCStatements
    Inputs <- MCInputs
    ObjectsOf <- MCObjectsOf
    Refused <- MCRefused
    MaxInputs = 3
    LabelLimit = 1
    hello = hello
    Text = {hello}
    Opaque = Opaque
    Null = Null
    MaxNumber = 4
    FrameLimit = 4
    CellLimit = 2
INVARIANTS
    CodeVerifies
    CompiledIsSafe
    StepsCompile
PROPERTY
    InputsAdvance
CHECK_DEADLOCK FALSE
