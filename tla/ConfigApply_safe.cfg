\* Every kind of instance, every fault the ledger is meant to survive.
SPECIFICATION ApplySpec
CONSTANTS
    Orgs = {o1, o2}
    Null = null
    Shapes <- MCShapes
    NoShape = noshape
    Broken = {"bad"}
    Seeds = {"seed1", "seed2"}
    Slots = {"k1", "k2"}
    Needs <- MCNeeds
    Required = {"k1"}
    Values = {v1}
    NoValue = novalue
    NoIdentity = noidentity
    Instances <- MCAll
    MaxRows <- MCRows
SYMMETRY MCSymmetry
INVARIANTS
    LedgerIsHistory
    IdentityTruthful
    AnsweredIsSealed
