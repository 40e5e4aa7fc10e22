SPECIFICATION Spec
CONSTANTS
    a1 = a1 a2 = a2 main = main helper = helper other = other
    service = service session = session
    None = None
    App = {a1, a2}
    Proc = {main, helper, other}
    Owner <- OwnerOf
    Parent <- ParentOf
    Born = {main, other}
    Protected = {}
    Movable = {main}
    UnitName <- NameOf
    Rule <- RuleOf
    Profile <- QuotaOnly
    Environments <- EveryTier
    Bases = {service, session}
    ScopeBase = service
    Commands = {"freeze", "thaw", "thawAll"}
INVARIANTS
    TypeOK
PROPERTIES
    LeavingFrozenThaws
    ThrottledMeansEffect
    RestartFreesAll
CHECK_DEADLOCK FALSE
