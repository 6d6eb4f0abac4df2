\* Two frames, in one tab or in two; a debugger calls, and COM calls fail.
SPECIFICATION Spec
CONSTANTS
    Tabs = {t1, t2}
    Engines = {e1, e2}
    ScriptIds = {s1, s2}
    SystemScripts = {s1}
    Positions = {p1}
    MaxEvents = 2
SYMMETRY TabSymmetry
INVARIANTS
    TypeOK
    RegistriesAgree
    EnabledScriptsBegan
    BreakpointsReach
CHECK_DEADLOCK FALSE
