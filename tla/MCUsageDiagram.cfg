SPECIFICATION Spec
CONSTANTS
    Layouts <- SmallLayouts
    MAX_DIAGRAM_DIMENSION = 6
INVARIANTS StaysInImage ColoursAreHonest
PROPERTIES NoPixelTwice
CHECK_DEADLOCK FALSE
