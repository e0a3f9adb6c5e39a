\* A crash in an apply can leave a ledger whose document no longer builds.
SPECIFICATION ApplySpec
CONSTANTS
    Orgs = {o1, o2}
    Null = null
    Shapes <- MCShapes
    NoShape = noshape
    Broken = {"bad"}
    Seeds = {"seed1", "seed2"}
    Slots = {"k1", "k2"}
    Needs <- MCNeeds
    Required = {"k1"}
    Values = {v1}
    NoValue = novalue
    NoIdentity = noidentity
    Instances <- MCCrash
    MaxRows <- MCRows
INVARIANT BootConverges
