SPECIFICATION Spec
CONSTANTS
    Processes = {p1, p2, p3}
    BufferSizes = {2, 5, 7, 8, 16, 22}
    INT_MAX = 7
    SIZE_MAX = 255
INVARIANTS TypeOK EveryViewIsInside SetUpFileOpens
PROPERTIES StoredIsKept
