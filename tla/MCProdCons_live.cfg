\* Buffers of N = 2 (the code has 10, and the loop limit equals it), an
\* array of 3 slots so that front and rear wrap.
CONSTANTS
    N = 2
    Limit = 2
    QCap = 3
    Car = Car
    Zero = Zero
SPECIFICATION Spec
PROPERTY CarsLeave
