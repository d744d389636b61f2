SPECIFICATION Spec
CONSTANTS
    Workers = {w1, w2}
    Rosters <- MCRosters
    Manager = "boss"
    Period = 3
    Limit = 1
    Timeout = 1
    MaxTime = 7
    MaxManual = 2
    Incidents = {i1}
    Policies = {"p1"}
    Limits <- MCLimits
    Checkers = {c1, c2}
    MaxMinute = 2
    MaxAborts = 1
    Scripts <- MCScripts
    Desks = {d1, d2}
    MaxDesk = 3
    Rules = {r1, r2}
    Conditions <- MCConditions
    ActionTypes = {"notify", "suppress"}
    Alerts <- MCAlerts
    Missing = Missing
    Duration = 1
    MaxHour = 2
    MaxEdits = 2
    MaxAlerts = 3
INVARIANTS
    
    StepsInOrder
    WindowCounts
PROPERTIES
    RotationFair
    OverdueRecorded
CHECK_DEADLOCK FALSE
