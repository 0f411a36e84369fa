SPECIFICATION RulesSpec

CONSTANTS
    Directives <- MCDirectives
    MaxDirectives = 5
    PATHS <- MCPaths
    SEG = {"a", "b", "..", ""}
    None = None
    Bad = Bad
    NAME = {a, b}
    PROXY = proxy
    VAL = {v1, v2}
    MAXAGES <- MCMaxAges
    EXPIRES = {0, 1, 3}
    MaxHeaders = 2
    Absent = Absent

INVARIANTS
    ControlHeadersDistinct
    NothingOffByAccident
    ProxyCookieAccepted
    MostSpecificRuleWins
    RedirectedAtMostOnce
    CacheActsAsBrowser
    StoredStaysServerSide

CHECK_DEADLOCK FALSE
