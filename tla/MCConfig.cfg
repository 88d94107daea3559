CONSTANTS
    Fields = {"model", "max_tokens", "max_concurrent"}
    SectionOf <- MCSectionOf
    Values = {1, 2, 3}
    Unset = 0
    Defaulted = {"max_concurrent"}
    Default = 1
    Docs <- Overridden
    Admins = {a, b}
    LookupFails = TRUE
    MaxEdits = 3
SPECIFICATION Spec
INVARIANTS AgentCurrent AuditComplete
PROPERTY AgentConverges
