\* Two transaction slots that are used again, as any use of more than MAX_TX
\* transactions has to.
CONSTANTS
    MAX_TX = 3
    Tx = {1, 2}
    Keys = {x}
    Values = {v}
    NoValue = NoValue
    ReuseIds = TRUE
    MaxTs = 6
    MaxVersions = 2
SPECIFICATION Spec
PROPERTIES
    AbortKeepsCommitted
CHECK_DEADLOCK FALSE
