\* A seal that fails after the vault was refreshed is answered as done by the retry.
SPECIFICATION ApplySpec
CONSTANTS
    Orgs = {o1, o2}
    Null = null
    Shapes <- MCShapes
    NoShape = noshape
    Broken = {"bad"}
    Seeds = {"seed1", "seed2"}
    Slots = {"k1", "k2"}
    Needs <- MCNeeds
    Required = {"k1"}
    Values = {v1}
    NoValue = novalue
    NoIdentity = noidentity
    Instances <- MCSeal
    MaxRows <- MCRows
INVARIANT RotationKept
