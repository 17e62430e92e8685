CONSTANTS
    Accounts = {a1, a2}
    MaxBindings = 2
SPECIFICATION Spec
INVARIANTS
    OriginRulesAgree
    OneAccountThroughout
    StoredIsNormalized
    AnswerIsStored
