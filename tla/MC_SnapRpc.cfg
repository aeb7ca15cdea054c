CONSTANTS
    r1 = r1
    r2 = r2
    objA = objA
    objB = objB
    strC = strC
    NotANumber = NotANumber
    NotSet = NotSet
    None = None
    Req <- MCReq
    KeyIdInputs <- MCKeyIdInputs
    NonceInputs <- MCNonceInputs
    GasInputs <- MCGasInputs
    ObjectCalls <- MCObjectCalls
    StringCalls <- MCStringCalls
    EncodableCalls <- MCEncodableCalls
SPECIFICATION Spec
SYMMETRY MCSymmetry
INVARIANTS
    TypeOK
    FailureSkipsRemainingSteps
    ReleaseExactlyOnce
    SignedAsShown
