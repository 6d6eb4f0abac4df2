\* The trace "Cannot parse script" against the constructor of CScriptSiteInfo.
SPECIFICATION Spec
CONSTANTS
    Tabs = {t1, t2}
    Engines = {e1, e2}
    ScriptIds = {s1, s2}
    SystemScripts = {s1}
    Positions = {p1}
    MaxEvents = 0
SYMMETRY TabSymmetry
PROPERTIES
    UnparsedIsPassedOver
CHECK_DEADLOCK FALSE
