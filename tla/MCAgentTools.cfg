SPECIFICATION ToolsSpec
CONSTANTS
    d1 = d1
    c1 = c1
    c2 = c2
    Docs = {d1}
    Calls = {c1, c2}
    Headings = {"s1"}
    Outline <- Sections
    Words <- OneWord
    Budget = 1
    Window = 2
    Selected = 2
    PageSize = 1
    MaxCalls = 4
INVARIANTS
    OneEditionPerResponse
    OnlyVisibleReturned
    CitationsResolve
    SectionReadWhole
SYMMETRY CallSymmetry
CHECK_DEADLOCK FALSE
