\* The circular queue on its own: 4 slots, so rear and front wrap, and 2 car
\* numbers, so the order of the cars is visible.
CONSTANTS
    QCap = 4
    Vals = {v1, v2}
    Zero = Zero
SPECIFICATION Spec
INVARIANTS TypeOK IsFifo
