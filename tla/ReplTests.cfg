SPECIFICATION Spec
CONSTANTS
    Catalog <- TestBreakpoints
    Conditional = {}
    Missing = {6}
    Selected = "all"
INVARIANTS TypeOK NoTestFails OneLifePerAdapter
PROPERTIES TestsEnd
CHECK_DEADLOCK FALSE
