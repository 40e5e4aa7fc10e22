SPECIFICATION Spec
CONSTANTS
    a1 = a1 a2 = a2 main = main helper = helper other = other
    service = service session = session
    None = None
    App = {a1, a2}
    Proc = {main, helper, other}
    Owner <- OwnerOf
    Parent <- ParentOf
    Born = {main, other}
    Protected = {}
    Movable = {main}
    UnitName <- NameOf
    Rule <- RuleOf
    Profile <- QuotaOnly
    Environments <- DelegatedOnly
    Bases = {service, session}
    ScopeBase = service
    Commands = {"thawAll"}
PROPERTIES
    ThawAllReleases
CHECK_DEADLOCK FALSE
