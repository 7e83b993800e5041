\* Two processes whose hooks on one conversation overlap; nothing runs during a /new.
SPECIFICATION CarrySpec
CONSTANTS
    s1 = s1  s2 = s2  a1 = a1  a2 = a2
    Sessions = {s1, s2}
    NoSession = NoSession
    Agents = {a1, a2}
    MaxSummaries = 1
    MaxBinds = 2
    Intrusion = FALSE
PROPERTIES LateEndKeepsCarrySource
CHECK_DEADLOCK FALSE
